---- MODULE Spec2Model ----
(***************************************************************************)
(* Model of the tokenest estimation engine (package tokenest).             *)
(*                                                                         *)
(* Representation                                                          *)
(*   - a Go string / []byte is a sequence of bytes (0..255); Go's 0-based  *)
(*     index k is position k+1 of the sequence;                            *)
(*   - a rune is its code point;                                           *)
(*   - a float64 multiplier is an exact rational [num, den] with a power   *)
(*     of two as denominator, so float64(tokens)*multiplier is exact for   *)
(*     the token counts of the model and math.Ceil is the rational         *)
(*     ceiling;                                                            *)
(*   - the 64-bit maphash sum of a cache key is represented by the byte    *)
(*     stream written to the hasher (the seeded hash is taken to be        *)
(*     collision free on the inputs of the model).                         *)
(***************************************************************************)
EXTENDS Integers, Sequences, FiniteSets, TLC

(***************************************************************************)
(* Arithmetic helpers                                                      *)
(***************************************************************************)

\* math.Ceil(n/d) for an integer n and d > 0
CeilDiv(n, d) == -((-n) \div d)

MinOf(S) == CHOOSE m \in S : \A k \in S : m <= k

MaxOf(S) == CHOOSE m \in S : \A k \in S : m >= k

\* strings.Repeat of a one-byte string
Repeat(b, n) == [i \in 1..n |-> b]

\* s[start:end] of Go (0-based, end exclusive)
Slice(s, start, end) == SubSeq(s, start + 1, end)

(***************************************************************************)
(* float64.  A value that is not negative is held in fixed point: a         *)
(* sequence of limbs in radix 2^15, least significant first, the limbs of   *)
(* F64FracLimbs after the binary point.  Bit k (from 0) weighs 2^(k-120).   *)
(* Every operation of the code on float64 is the exact operation followed   *)
(* by RoundToFloat64 (round to nearest, ties to even, 53 significant bits), *)
(* one rounding per operation as the amd64 build does it.                   *)
(***************************************************************************)

F64Radix == 2^15

F64Limbs == 1..10

F64FracLimbs == 1..8

F64Zero == [i \in F64Limbs |-> 0]

\* float64(n) for an integer 0 <= n < 2^30
F64OfInt(n) ==
    [i \in F64Limbs |->
        IF i = Cardinality(F64FracLimbs) + 1 THEN n % F64Radix
        ELSE IF i = Cardinality(F64FracLimbs) + 2 THEN n \div F64Radix
        ELSE 0]

RECURSIVE FixAddLoop(_, _, _, _)
FixAddLoop(a, b, i, carry) ==
    IF i > Len(a) THEN <<>>
    ELSE <<(a[i] + b[i] + carry) % F64Radix>>
             \o FixAddLoop(a, b, i + 1, (a[i] + b[i] + carry) \div F64Radix)

\* a + b, exact
FixAdd(a, b) == FixAddLoop(a, b, 1, 0)

RECURSIVE FixSubLoop(_, _, _, _)
FixSubLoop(a, b, i, borrow) ==
    IF i > Len(a) THEN <<>>
    ELSE <<(a[i] - b[i] - borrow + F64Radix) % F64Radix>>
             \o FixSubLoop(a, b, i + 1, IF a[i] - b[i] - borrow < 0 THEN 1 ELSE 0)

\* a - b for a >= b, exact
FixSub(a, b) == FixSubLoop(a, b, 1, 0)

RECURSIVE FixMulLoop(_, _, _, _)
FixMulLoop(a, n, i, carry) ==
    IF i > Len(a) THEN <<>>
    ELSE <<(a[i] * n + carry) % F64Radix>>
             \o FixMulLoop(a, n, i + 1, (a[i] * n + carry) \div F64Radix)

\* a * n for an integer 0 <= n < 2^15, exact
FixMul(a, n) == FixMulLoop(a, n, 1, 0)

\* a < b
F64Less(a, b) ==
    \E i \in F64Limbs : a[i] < b[i] /\ \A j \in F64Limbs : j > i => a[j] = b[j]

FixLimb(a, i) == IF i \in F64Limbs THEN a[i] ELSE 0

\* a / 2^s, exact when the s low bits of a are 0
FixShiftRight(a, s) ==
    [i \in F64Limbs |->
        (FixLimb(a, i + (s \div 15)) \div 2^(s % 15))
          + (FixLimb(a, i + (s \div 15) + 1) % 2^(s % 15)) * 2^(15 - (s % 15))]

FixBit(a, k) == (a[(k \div 15) + 1] \div 2^(k % 15)) % 2

\* the highest limb of a # 0 that is not 0, from limb i down
RECURSIVE FixTopLimb(_, _)
FixTopLimb(a, i) == IF a[i] # 0 THEN i ELSE FixTopLimb(a, i - 1)

\* the index of the highest bit of n >= 1
RECURSIVE TopBit(_)
TopBit(n) == IF n < 2 THEN 0 ELSE 1 + TopBit(n \div 2)

\* the index of the highest bit of a # 0
FixTopBitOfLimb(a, top) == 15 * (top - 1) + TopBit(a[top])

FixTopBit(a) == FixTopBitOfLimb(a, FixTopLimb(a, Len(a)))

\* the bits of a below bit k are all 0
FixLowZero(a, k) ==
    /\ \A i \in F64Limbs : i <= k \div 15 => a[i] = 0
    /\ a[(k \div 15) + 1] % 2^(k % 15) = 0

\* a with the bits below bit k cleared
FixTruncate(a, k) ==
    [i \in F64Limbs |->
        IF i <= k \div 15 THEN 0
        ELSE IF i = (k \div 15) + 1 THEN a[i] - (a[i] % 2^(k % 15))
        ELSE a[i]]

FixPowerOfTwo(k) ==
    [i \in F64Limbs |-> IF i = (k \div 15) + 1 THEN 2^(k % 15) ELSE 0]

\* the float64 nearest to a + (a nonzero part below the last bit iff
\* sticky), ties to even; cut is the lowest bit the float64 keeps
RoundAtBit(a, cut, sticky) ==
    IF cut <= 0 THEN a
    ELSE IF FixBit(a, cut - 1) = 1
            /\ (sticky \/ ~FixLowZero(a, cut - 1) \/ FixBit(a, cut) = 1)
    THEN FixAdd(FixTruncate(a, cut), FixPowerOfTwo(cut))
    ELSE FixTruncate(a, cut)

RoundToFloat64(a, sticky) ==
    IF a = F64Zero THEN a ELSE RoundAtBit(a, FixTopBit(a) - 52, sticky)

\* the limbs after the binary point of r/t for 0 <= r < t < 2^16, from
\* limb i down, and the remainder that is left
RECURSIVE FixFracLoop(_, _, _)
FixFracLoop(r, t, i) ==
    IF i = 0 THEN <<>>
    ELSE FixFracLoop((r * F64Radix) % t, t, i - 1) \o <<(r * F64Radix) \div t>>

RECURSIVE FixFracRest(_, _, _)
FixFracRest(r, t, i) ==
    IF i = 0 THEN r ELSE FixFracRest((r * F64Radix) % t, t, i - 1)

\* float64(n) / float64(t) for integers 0 <= n < 2^15 * t, 0 < t < 2^16
F64Quotient(n, t) ==
    RoundToFloat64(
        FixFracLoop(n % t, t, Cardinality(F64FracLimbs)) \o <<n \div t, 0>>,
        FixFracRest(n % t, t, Cardinality(F64FracLimbs)) # 0)

F64Add(a, b) == RoundToFloat64(FixAdd(a, b), FALSE)

F64Sub(a, b) == RoundToFloat64(FixSub(a, b), FALSE)

\* float64(n) * a for an integer 0 <= n < 2^15
F64MulInt(n, a) == RoundToFloat64(FixMul(a, n), FALSE)

\* a * 1.5
F64MulOneAndHalf(a) == RoundToFloat64(FixAdd(a, FixShiftRight(a, 1)), FALSE)

\* int(math.Ceil(a))
F64Ceil(a) ==
    a[Cardinality(F64FracLimbs) + 1] + F64Radix * a[Cardinality(F64FracLimbs) + 2]
      + (IF \A i \in F64FracLimbs : a[i] = 0 THEN 0 ELSE 1)

\* math.Ceil(float64(n) / d) > m, for integers n > 0, 0 <= m < 2^14 and
\* d > 0: the quotient rounds to a float64 above m iff it lies above the
\* middle of m and the float64 after m (m is even in its last place)
F64QuotientAbove(n, d, m) ==
    IF m = 0 THEN TRUE
    ELSE F64Less(FixAdd(FixMul(d, 2 * m),
                        FixShiftRight(d, 52 - TopBit(m))),
                 F64OfInt(2 * n))

\* int(math.Ceil(float64(n) / d)), guess being that value for the exact
\* divisor that d rounds: the value is guess or next to it
F64CeilQuotient(n, d, guess) ==
    IF ~F64QuotientAbove(n, d, guess - 1) THEN guess - 1
    ELSE IF ~F64QuotientAbove(n, d, guess) THEN guess
    ELSE guess + 1

(***************************************************************************)
(* Text literals: the bytes of a printable-ASCII string literal            *)
(***************************************************************************)

Digits == "0123456789"

UpperCase == "ABCDEFGHIJKLMNOPQRSTUVWXYZ"

LowerCase == "abcdefghijklmnopqrstuvwxyz"

IndexIn(str, c) == CHOOSE k \in 1..Len(str) : SubSeq(str, k, k) = c

\* the code point of a one-character literal (letters, digits, space, - . _)
Ord(c) ==
    CASE c = " " -> 32
      [] c = "-" -> 45
      [] c = "." -> 46
      [] c = "_" -> 95
      [] \E k \in 1..Len(Digits) : SubSeq(Digits, k, k) = c -> 47 + IndexIn(Digits, c)
      [] \E k \in 1..Len(UpperCase) : SubSeq(UpperCase, k, k) = c -> 64 + IndexIn(UpperCase, c)
      [] OTHER -> 96 + IndexIn(LowerCase, c)

B(str) == [i \in 1..Len(str) |-> Ord(SubSeq(str, i, i))]

(***************************************************************************)
(* unicode/utf8: DecodeRuneInString, range over a string                   *)
(***************************************************************************)

RuneError == 65533

isContinuationByte(b) == b >= 128 /\ b <= 191

\* the accepted range of the second byte after lead byte b0 (utf8.acceptRanges)
SecondByteOK(b0, b1) ==
    CASE b0 = 224 -> b1 >= 160 /\ b1 <= 191
      [] b0 = 237 -> b1 >= 128 /\ b1 <= 159
      [] b0 = 240 -> b1 >= 144 /\ b1 <= 191
      [] b0 = 244 -> b1 >= 128 /\ b1 <= 143
      [] OTHER -> isContinuationByte(b1)

\* utf8.DecodeRuneInString(s[i-1:]) for 1 <= i <= Len(s): <<rune, size>>
DecodeRune(s, i) ==
    LET b0 == s[i]
        n == Len(s) - i + 1
    IN  IF b0 < 128 THEN <<b0, 1>>
        ELSE IF b0 >= 194 /\ b0 <= 223
        THEN IF n >= 2 /\ isContinuationByte(s[i + 1])
             THEN <<(b0 - 192) * 64 + (s[i + 1] - 128), 2>>
             ELSE <<RuneError, 1>>
        ELSE IF b0 >= 224 /\ b0 <= 239
        THEN IF n >= 3 /\ SecondByteOK(b0, s[i + 1]) /\ isContinuationByte(s[i + 2])
             THEN <<(b0 - 224) * 4096 + (s[i + 1] - 128) * 64 + (s[i + 2] - 128), 3>>
             ELSE <<RuneError, 1>>
        ELSE IF b0 >= 240 /\ b0 <= 244
        THEN IF n >= 4 /\ SecondByteOK(b0, s[i + 1]) /\ isContinuationByte(s[i + 2])
                       /\ isContinuationByte(s[i + 3])
             THEN <<(b0 - 240) * 262144 + (s[i + 1] - 128) * 4096
                       + (s[i + 2] - 128) * 64 + (s[i + 3] - 128), 4>>
             ELSE <<RuneError, 1>>
        ELSE <<RuneError, 1>>

RuneAt(s, i) == DecodeRune(s, i)[1]

SizeAt(s, i) == DecodeRune(s, i)[2]

\* position i lies inside a valid multi-byte sequence that starts before i
Covered(s, i) ==
    \E j \in (i - 3)..(i - 1) :
        j >= 1 /\ ~isContinuationByte(s[j]) /\ j + SizeAt(s, j) > i

\* the positions at which `for idx, r := range s` decodes a rune: every byte
\* that is not consumed by a valid sequence starting at an earlier lead byte
RuneStarts(s) == {i \in 1..Len(s) : ~Covered(s, i)}

\* utf8.RuneCountInString
RuneCountInString(s) == Cardinality(RuneStarts(s))

(***************************************************************************)
(* Strategy and Profile (iota constants)                                   *)
(***************************************************************************)

StrategyAuto == 0
StrategyUltraFast == 1
StrategyFast == 2
StrategyWeighted == 3
StrategyZR == 4

ProfileAuto == 0
ProfileOpenAI == 1
ProfileClaude == 2
ProfileGemini == 3

BaseOverhead == 50
PerMessageOverhead == 4
ImageTokensLow == 85
ImageTokensHigh == 765
ImageTokensDefault == 500

(***************************************************************************)
(* UltraFast and Fast                                                      *)
(***************************************************************************)

fastSampleTotal == 1000
fastHeadSize == 256
fastMidSize == 256
fastTailSize == 256

\* estimateUltraFast with the division rounded down
estimateUltraFastFloor(data) == Len(data) \div 4

estimateUltraFast(data) ==
    IF Len(data) = 0 THEN 0 ELSE (Len(data) + 3) \div 4

isCJKFast(r) == r >= 19968 /\ r <= 40959

\* the 32 ASCII punctuation marks of the switch
isFastPunct(r) ==
    r \in {123, 125, 91, 93, 40, 41, 60, 62, 59, 58, 44, 46, 33, 63, 64, 35, 36,
           37, 94, 38, 42, 61, 43, 45, 47, 92, 124, 126, 96, 34, 39, 95}

\* idx is a Go index, 0 <= idx <= len(text)
adjustLeftToRuneBoundary(text, idx) ==
    MinOf({j \in idx..Len(text) : j = Len(text) \/ ~isContinuationByte(text[j + 1])})

adjustRightToRuneBoundary(text, idx) ==
    MaxOf({j \in 0..idx : j = 0 \/ ~isContinuationByte(text[j])})

\* end clamped into 0..len(text)
clampEnd(n, end0) == IF end0 < 0 THEN 0 ELSE IF end0 > n THEN n ELSE end0

\* start clamped into 0..end
clampStart(start0, end) ==
    IF start0 < 0 THEN (IF 0 > end THEN end ELSE 0)
    ELSE IF start0 > end THEN end ELSE start0

clampWindow(n, start0, end0) ==
    <<clampStart(start0, clampEnd(n, end0)), clampEnd(n, end0)>>

\* the clamped window snapped to rune boundaries; end is not left of start
snapWindow(start, end) == <<start, IF end < start THEN start ELSE end>>

safeSliceWindow(text, w) ==
    snapWindow(adjustLeftToRuneBoundary(text, w[1]),
               adjustRightToRuneBoundary(text, w[2]))

\* the window [start, end) after clamping and snapping, as Go indices
safeSliceBounds(text, start0, end0) ==
    safeSliceWindow(text, clampWindow(Len(text), start0, end0))

SliceWindow(text, w) == Slice(text, w[1], w[2])

safeSlice(text, start, end) == SliceWindow(text, safeSliceBounds(text, start, end))

sampleMid(text, midStart) == safeSlice(text, midStart, midStart + fastMidSize)

sampleFastText(text) ==
    IF Len(text) <= fastSampleTotal THEN text
    ELSE safeSlice(text, 0, fastHeadSize)
           \o sampleMid(text, (Len(text) \div 2) - (fastMidSize \div 2))
           \o safeSlice(text, Len(text) - fastTailSize, Len(text))

\* the rune decoded at each position where `for _, r := range s` decodes one
RuneMap(s) == [i \in RuneStarts(s) |-> RuneAt(s, i)]

CountRunes(runes, P(_)) == Cardinality({i \in DOMAIN runes : P(runes[i])})

\* divisor = clamp(4 - 1.5*cjk/total - punct/total, 2, 4) as num / (2*total)
fastDivisorNum(totalRunes, raw) ==
    IF raw < 4 * totalRunes THEN 4 * totalRunes
    ELSE IF raw > 8 * totalRunes THEN 8 * totalRunes
    ELSE raw

\* the clamp of the divisor to [2.0, 4.0]
fastDivisorClamp(divisor) ==
    IF F64Less(divisor, F64OfInt(2)) THEN F64OfInt(2)
    ELSE IF F64Less(F64OfInt(4), divisor) THEN F64OfInt(4)
    ELSE divisor

\* divisor := 4.0 - (cjkRatio * 1.5) - (punctRatio * 1.0), clamped
fastDivisor(totalRunes, cjkCount, punctCount) ==
    fastDivisorClamp(
        F64Sub(F64Sub(F64OfInt(4), F64MulOneAndHalf(F64Quotient(cjkCount, totalRunes))),
               F64Quotient(punctCount, totalRunes)))

\* tokens = int(math.Ceil(float64(len) / divisor))
fastTokens(length, totalRunes, cjkCount, punctCount) ==
    IF totalRunes = 0 THEN 0
    ELSE F64CeilQuotient(length, fastDivisor(totalRunes, cjkCount, punctCount),
             CeilDiv(length * 2 * totalRunes,
                 fastDivisorNum(totalRunes,
                                8 * totalRunes - 3 * cjkCount - 2 * punctCount)))

fastTokensOfSample(length, runes) ==
    fastTokens(length, Cardinality(DOMAIN runes), CountRunes(runes, isCJKFast),
               CountRunes(runes, isFastPunct))

estimateFast(text) ==
    IF Len(text) = 0 THEN 0
    ELSE fastTokensOfSample(Len(text), RuneMap(sampleFastText(text)))

(***************************************************************************)
(* unicode and strings helpers                                             *)
(***************************************************************************)

\* unicode.IsSpace (White_Space property)
IsSpace(r) ==
    \/ r \in {9, 10, 11, 12, 13, 32, 133, 160, 5760, 8232, 8233, 8239, 8287, 12288}
    \/ (r >= 8192 /\ r <= 8202)

TrimTo(s, keep) ==
    IF keep = {} THEN <<>>
    ELSE SubSeq(s, MinOf(keep), MaxOf(keep) + SizeAt(s, MaxOf(keep)) - 1)

\* strings.TrimSpace: the bytes from the first to the last rune that is not
\* white space
TrimSpace(s) == TrimTo(s, {i \in RuneStarts(s) : ~IsSpace(RuneAt(s, i))})

\* strings.ToLower on the ASCII strings of the model: A-Z map to a-z
ToLower(s) == [i \in 1..Len(s) |-> IF s[i] >= 65 /\ s[i] <= 90 THEN s[i] + 32 ELSE s[i]]

\* strings.Contains
Contains(s, sub) ==
    \E i \in 1..(Len(s) - Len(sub) + 1) : SubSeq(s, i, i + Len(sub) - 1) = sub

(***************************************************************************)
(* profiles.go: resolveProfile                                             *)
(***************************************************************************)

\* resolveProfile that looks at the model before the provider type
resolveProfileHintsModelFirst(providerType, model) ==
    IF Contains(model, B("claude")) THEN ProfileClaude
    ELSE IF Contains(model, B("gemini")) THEN ProfileGemini
    ELSE IF providerType = B("anthropic") \/ Contains(providerType, B("claude"))
    THEN ProfileClaude
    ELSE IF providerType = B("gemini") \/ providerType = B("google")
            \/ Contains(providerType, B("gemini"))
    THEN ProfileGemini
    ELSE ProfileOpenAI

\* resolveProfile that tests the provider type for Gemini before Claude
resolveProfileHintsGeminiFirst(providerType, model) ==
    IF providerType = B("gemini") \/ providerType = B("google")
       \/ Contains(providerType, B("gemini"))
    THEN ProfileGemini
    ELSE IF providerType = B("anthropic") \/ Contains(providerType, B("claude"))
    THEN ProfileClaude
    ELSE IF providerType = B("openai") \/ Contains(providerType, B("openai"))
    THEN ProfileOpenAI
    ELSE IF Contains(model, B("claude")) THEN ProfileClaude
    ELSE IF Contains(model, B("gemini")) THEN ProfileGemini
    ELSE ProfileOpenAI

\* the branches of resolveProfile on the trimmed, lower-cased hints
resolveProfileHints(providerType, model) ==
    IF providerType = B("anthropic") \/ Contains(providerType, B("claude"))
    THEN ProfileClaude
    ELSE IF providerType = B("gemini") \/ providerType = B("google")
            \/ Contains(providerType, B("gemini"))
    THEN ProfileGemini
    ELSE IF providerType = B("openai") \/ Contains(providerType, B("openai"))
    THEN ProfileOpenAI
    ELSE IF Contains(model, B("claude")) THEN ProfileClaude
    ELSE IF Contains(model, B("gemini")) THEN ProfileGemini
    ELSE ProfileOpenAI

resolveProfile(opts) ==
    IF opts.Profile # ProfileAuto THEN opts.Profile
    ELSE resolveProfileHints(ToLower(TrimSpace(opts.ProviderType)),
                             ToLower(TrimSpace(opts.Model)))

(***************************************************************************)
(* applyMultiplier                                                         *)
(***************************************************************************)

\* a multiplier is the rational num/den, den > 0
Mul(n, d) == [num |-> n, den |-> d]

\* applyMultiplier without the test for a multiplier that is not positive
applyMultiplierUnguarded(tokens, multiplier) ==
    IF multiplier.num = multiplier.den THEN tokens
    ELSE CeilDiv(tokens * multiplier.num, multiplier.den)

applyMultiplier(tokens, multiplier) ==
    IF multiplier.num <= 0 \/ multiplier.num = multiplier.den THEN tokens
    ELSE CeilDiv(tokens * multiplier.num, multiplier.den)

(***************************************************************************)
(* Rune classes of the Weighted and ZR scans                               *)
(***************************************************************************)

InRange(r, lo, hi) == r >= lo /\ r <= hi

isLatinAlphaNum(r) ==
    \/ InRange(r, 97, 122)
    \/ InRange(r, 65, 90)
    \/ InRange(r, 48, 57)
    \/ InRange(r, 192, 255)

isCJKRune(r) ==
    \/ InRange(r, 19968, 40959)
    \/ InRange(r, 13312, 19903)
    \/ InRange(r, 12288, 12351)
    \/ InRange(r, 65280, 65519)
    \/ InRange(r, 12448, 12543)
    \/ InRange(r, 11904, 12031)
    \/ InRange(r, 12736, 12783)
    \/ InRange(r, 12800, 13055)
    \/ InRange(r, 13056, 13311)
    \/ InRange(r, 44032, 55215)
    \/ InRange(r, 4352, 4607)
    \/ InRange(r, 12592, 12687)
    \/ InRange(r, 43360, 43391)
    \/ InRange(r, 55216, 55295)

\* . , ! ? ; ( ) { } [ ] < > : / \ | @ # $ % ^ & * + = ` ~ _ - and both quotes
isPunctuation(r) ==
    r \in {46, 44, 33, 63, 59, 40, 41, 123, 125, 91, 93, 60, 62, 58, 47, 92, 124,
           64, 35, 36, 37, 94, 38, 42, 43, 61, 96, 126, 95, 45, 34, 39}

isAtSign(r) == r = 64

\* : / . ? & = # %
isURLDelim(r) == r \in {58, 47, 46, 63, 38, 61, 35, 37}

\* + - * / = ^ < >
isMathSymbol(r) == r \in {43, 45, 42, 47, 61, 94, 60, 62}

isEmoji(r) ==
    \/ InRange(r, 127744, 128511)
    \/ InRange(r, 128512, 128591)
    \/ InRange(r, 128640, 128767)
    \/ InRange(r, 128768, 128895)
    \/ InRange(r, 129280, 129535)
    \/ InRange(r, 129536, 129791)
    \/ InRange(r, 9728, 9983)
    \/ InRange(r, 9984, 10175)

\* the runes of a segment, as a set
\* A segment whose runes are what matters is passed as runes = RuneMap(segment),
\* with n = len(segment) where the code also looks at the length.

\* the loop of isNumericSegment: digits with single '.' or ',' between or
\* before them, at least one digit, no separator at the end
isNumericSegment(runes, n) ==
    /\ \A i \in DOMAIN runes : InRange(runes[i], 48, 57) \/ runes[i] \in {46, 44}
    /\ ~\E i \in DOMAIN runes : i > 1 /\ runes[i] \in {46, 44} /\ runes[i - 1] \in {46, 44}
    /\ \E i \in DOMAIN runes : InRange(runes[i], 48, 57)
    /\ runes[n] \notin {46, 44}

isAlphanumericSegment(runes) == \A i \in DOMAIN runes : isLatinAlphaNum(runes[i])

isCJKSegment(runes) ==
    DOMAIN runes # {} /\ \A i \in DOMAIN runes : isCJKRune(runes[i])

\* defaultLanguageConfigs: <<chars per token as num/den, diacritic set>>
defaultLanguageConfigs ==
    << [avg |-> <<3, 1>>, set |-> {228, 246, 252, 223, 7838}],
       [avg |-> <<3, 1>>, set |-> {233, 232, 234, 235, 224, 226, 238, 239, 244, 251, 249,
                                   252, 255, 231, 339, 230, 225, 237, 243, 250, 241}],
       [avg |-> <<7, 2>>, set |-> {261, 263, 281, 322, 324, 243, 347, 378, 380, 283, 353,
                                   269, 345, 382, 253, 367, 250, 271, 357, 328}] >>

languageConfigMatches(cfg, runes) == \E i \in DOMAIN runes : runes[i] \in cfg.set

\* the avg of the first table of configs that matches, <<0, 1>> when none does
firstLanguageMatch(configs, hits) ==
    IF hits = {} THEN <<0, 1>> ELSE configs[MinOf(hits)].avg

languageCharsPerToken(configs, runes) ==
    firstLanguageMatch(configs,
        {k \in 1..Len(configs) : languageConfigMatches(configs[k], runes)})

getLanguageSpecificCharsPerToken(runes) ==
    languageCharsPerToken(defaultLanguageConfigs, runes)

\* avg, or the default when avg <= 0
charsPerTokenOr(avg, default) == IF avg[1] <= 0 THEN <<default, 1>> ELSE avg

\* math.Ceil(float64(runeCount) / avg)
ceilRunesPerToken(runeCount, avg) == CeilDiv(runeCount * avg[2], avg[1])

defaultCharsPerToken == 6

(***************************************************************************)
(* profiles.go: categories and weights (weights in hundredths)             *)
(***************************************************************************)

breakdownOrder ==
    <<"word", "number", "cjk", "symbol", "math_symbol", "url_delim", "at_sign",
      "emoji", "newline", "space">>

Categories == {breakdownOrder[k] : k \in 1..Len(breakdownOrder)}

weightsForProfile(profile) ==
    IF profile = ProfileGemini
    THEN [word |-> 115, number |-> 280, cjk |-> 68, symbol |-> 38, mathSymbol |-> 105,
          urlDelim |-> 120, atSign |-> 250, emoji |-> 108, newline |-> 115, space |-> 20]
    ELSE IF profile = ProfileClaude
    THEN [word |-> 113, number |-> 163, cjk |-> 121, symbol |-> 40, mathSymbol |-> 452,
          urlDelim |-> 126, atSign |-> 282, emoji |-> 260, newline |-> 89, space |-> 39]
    ELSE [word |-> 102, number |-> 155, cjk |-> 85, symbol |-> 40, mathSymbol |-> 268,
          urlDelim |-> 100, atSign |-> 200, emoji |-> 212, newline |-> 50, space |-> 42]

weightForCategory(w, category) ==
    CASE category = "word" -> w.word
      [] category = "number" -> w.number
      [] category = "cjk" -> w.cjk
      [] category = "math_symbol" -> w.mathSymbol
      [] category = "url_delim" -> w.urlDelim
      [] category = "at_sign" -> w.atSign
      [] category = "emoji" -> w.emoji
      [] category = "newline" -> w.newline
      [] category = "space" -> w.space
      [] OTHER -> w.symbol

(***************************************************************************)
(* Weighted: the segment scan.  acc.units maps a category to its base      *)
(* units, which are whole numbers, and acc.adds lists the calls of         *)
(* addCategory that added something, <<category, units>> each, in their    *)
(* order: total and the Tokens of an entry are float64 sums in that order. *)
(***************************************************************************)

NoUnits == [units |-> [c \in Categories |-> 0], adds |-> <<>>]

addCategory(acc, category, units) ==
    IF units <= 0 THEN acc
    ELSE [units |-> [acc.units EXCEPT ![category] = @ + units],
          adds |-> Append(acc.adds, <<category, units>>)]

addWhitespaceSegment(acc, runes) ==
    addCategory(addCategory(acc, "newline", CountRunes(runes, LAMBDA r : r = 10)),
                "space", CountRunes(runes, LAMBDA r : r # 10 /\ IsSpace(r)))

flushSymbols(acc, symbolRun) ==
    IF symbolRun = 0 THEN acc ELSE addCategory(acc, "symbol", CeilDiv(symbolRun, 2))

RECURSIVE punctuationLoopMathFirst(_, _, _, _)
\* the loop with the case of the math symbols before the URL delimiters
punctuationLoopMathFirst(acc, segment, k, symbolRun) ==
    IF k > Len(segment) THEN flushSymbols(acc, symbolRun)
    ELSE LET r == segment[k]
         IN  IF isAtSign(r)
             THEN punctuationLoopMathFirst(
                      addCategory(flushSymbols(acc, symbolRun), "at_sign", 1),
                      segment, k + 1, 0)
             ELSE IF isMathSymbol(r)
             THEN punctuationLoopMathFirst(
                      addCategory(flushSymbols(acc, symbolRun), "math_symbol", 1),
                      segment, k + 1, 0)
             ELSE IF isURLDelim(r)
             THEN punctuationLoopMathFirst(
                      addCategory(flushSymbols(acc, symbolRun), "url_delim", 1),
                      segment, k + 1, 0)
             ELSE punctuationLoopMathFirst(acc, segment, k + 1, symbolRun + 1)

\* the loop of addPunctuationSegment from byte k on (every rune of a
\* punctuation segment is one byte)
RECURSIVE punctuationLoop(_, _, _, _)
punctuationLoop(acc, segment, k, symbolRun) ==
    IF k > Len(segment) THEN flushSymbols(acc, symbolRun)
    ELSE LET r == segment[k]
         IN  IF isAtSign(r)
             THEN punctuationLoop(addCategory(flushSymbols(acc, symbolRun), "at_sign", 1),
                                  segment, k + 1, 0)
             ELSE IF isURLDelim(r)
             THEN punctuationLoop(addCategory(flushSymbols(acc, symbolRun), "url_delim", 1),
                                  segment, k + 1, 0)
             ELSE IF isMathSymbol(r)
             THEN punctuationLoop(addCategory(flushSymbols(acc, symbolRun), "math_symbol", 1),
                                  segment, k + 1, 0)
             ELSE punctuationLoop(acc, segment, k + 1, symbolRun + 1)

addPunctuationSegment(acc, segment) == punctuationLoop(acc, segment, 1, 0)

\* addWordSegment with the rule of the short segments before the others
addWordRunesShortFirst(acc, runes, n, runeCount) ==
    IF n = 0 THEN acc
    ELSE IF runeCount <= 3 THEN addCategory(acc, "word", 1)
    ELSE IF isCJKSegment(runes) THEN addCategory(acc, "cjk", runeCount)
    ELSE IF isNumericSegment(runes, n) THEN addCategory(acc, "number", 1)
    ELSE IF isAlphanumericSegment(runes)
    THEN addCategory(acc, "word",
             ceilRunesPerToken(runeCount,
                 charsPerTokenOr(getLanguageSpecificCharsPerToken(runes),
                                 defaultCharsPerToken)))
    ELSE addCategory(acc, "word", runeCount)

addWordRunes(acc, runes, n, runeCount) ==
    IF n = 0 THEN acc
    ELSE IF isCJKSegment(runes) THEN addCategory(acc, "cjk", runeCount)
    ELSE IF isNumericSegment(runes, n) THEN addCategory(acc, "number", 1)
    ELSE IF runeCount <= 3 THEN addCategory(acc, "word", 1)
    ELSE IF isAlphanumericSegment(runes)
    THEN addCategory(acc, "word",
             ceilRunesPerToken(runeCount,
                 charsPerTokenOr(getLanguageSpecificCharsPerToken(runes),
                                 defaultCharsPerToken)))
    ELSE addCategory(acc, "word", runeCount)

addWordSegment(acc, runes, n) == addWordRunes(acc, runes, n, Cardinality(DOMAIN runes))

InWordRun(r) == ~(IsSpace(r) \/ isPunctuation(r) \/ isEmoji(r))

\* the inner loops: from Go index `from` (a decode position), the first
\* decode position whose rune is not In, or len(text)
runEnd(text, from, In(_)) ==
    MinOf({j \in from..Len(text) :
              j = Len(text) \/ (~Covered(text, j + 1) /\ ~In(RuneAt(text, j + 1)))})

\* the segment that starts with rune r goes to the handler of r's class
addSegment(acc, r, segment) ==
    IF IsSpace(r) THEN addWhitespaceSegment(acc, RuneMap(segment))
    ELSE IF isEmoji(r) THEN addCategory(acc, "emoji", RuneCountInString(segment))
    ELSE IF isPunctuation(r) THEN addPunctuationSegment(acc, segment)
    ELSE addWordSegment(acc, RuneMap(segment), Len(segment))

\* where the segment that starts with rune r ends: its inner loop from `from`
segmentEnd(text, from, r) ==
    IF IsSpace(r) THEN runEnd(text, from, IsSpace)
    ELSE IF isEmoji(r) THEN runEnd(text, from, isEmoji)
    ELSE IF isPunctuation(r) THEN runEnd(text, from, isPunctuation)
    ELSE runEnd(text, from, InWordRun)

\* the loop of estimateWeighted from Go index i on
RECURSIVE weightedLoop(_, _, _)

weightedSegment(acc, text, i, r, e) ==
    weightedLoop(addSegment(acc, r, Slice(text, i, e)), text, e)

\* a loop whose turn for a byte that does not decode lacks the i++
weightedAdvanceStuck(text, i, d) ==
    IF d[1] = RuneError /\ d[2] = 1 THEN i
    ELSE segmentEnd(text, i + d[2], d[1])

\* the index i after one turn of the loop, d = <<r, size>> decoded at i
weightedAdvance(text, i, d) ==
    IF d[1] = RuneError /\ d[2] = 1 THEN i + 1
    ELSE segmentEnd(text, i + d[2], d[1])

\* one turn of the loop, d = <<r, size>> decoded at i
weightedStep(acc, text, i, d) ==
    IF d[1] = RuneError /\ d[2] = 1
    THEN weightedLoop(addCategory(acc, "symbol", 1), text, weightedAdvance(text, i, d))
    ELSE weightedSegment(acc, text, i, d[1], weightedAdvance(text, i, d))

weightedLoop(acc, text, i) ==
    IF i >= Len(text) THEN acc
    ELSE weightedStep(acc, text, i, DecodeRune(text, i + 1))

\* the float64 of every weight up to 5.00, by its hundredths, computed once
weightLiterals == [h \in 1..500 |-> F64Quotient(h, 100)]

\* the float64 of a weight of the tables, given in hundredths
weightFloat64(hundredths) == weightLiterals[hundredths]

\* tokens := units * weight; sum += tokens, over the calls k.. of
\* addCategory for the categories of cats
RECURSIVE weightedSum(_, _, _, _, _)
weightedSum(adds, w, cats, k, sum) ==
    IF k > Len(adds) THEN sum
    ELSE weightedSum(adds, w, cats, k + 1,
             IF adds[k][1] \in cats
             THEN F64Add(sum, F64MulInt(adds[k][2],
                                        weightFloat64(weightForCategory(w, adds[k][1]))))
             ELSE sum)

\* total after the scan
weightedTotal(acc, w) == weightedSum(acc.adds, w, Categories, 1, F64Zero)

\* the entries of the categories that were added, in breakdownOrder
RECURSIVE breakdownItems(_, _, _)
breakdownItems(acc, w, k) ==
    IF k > Len(breakdownOrder) THEN <<>>
    ELSE LET c == breakdownOrder[k]
             rest == breakdownItems(acc, w, k + 1)
         IN  IF acc.units[c] = 0 THEN rest
             ELSE <<[Category |-> c, BaseUnits |-> acc.units[c],
                     Weight |-> weightForCategory(w, c),
                     Tokens |-> weightedSum(acc.adds, w, {c}, 1, F64Zero)]>> \o rest

\* a result that carries the breakdown whether or not it was asked for
weightedResultAlwaysExplained(acc, w, explain) ==
    [tokens |-> F64Ceil(weightedTotal(acc, w)),
     breakdown |-> breakdownItems(acc, w, 1)]

\* [tokens, breakdown]; the Weight of an entry is in hundredths (it names
\* the float64 of the table), its Tokens a float64
weightedResult(acc, w, explain) ==
    [tokens |-> F64Ceil(weightedTotal(acc, w)),
     breakdown |-> IF explain THEN breakdownItems(acc, w, 1) ELSE <<>>]

estimateWeighted(text, profile, explain) ==
    IF Len(text) = 0 THEN [tokens |-> 0, breakdown |-> <<>>]
    ELSE weightedResult(weightedLoop(NoUnits, text, 0), weightsForProfile(profile),
                        explain)

(***************************************************************************)
(* ZR: strategyTest1.go and its parameters (coefficients in 1/10000,       *)
(* thresholds in hundredths)                                               *)
(***************************************************************************)

zrCategoryGeneral == 0
zrCategoryCapital == 1
zrCategoryDense == 2
zrCategoryHex == 3
zrCategoryAlnum == 4

zrConfigDefault ==
    [charsPerToken |-> 3, shortThreshold |-> 6, capitalThreshold |-> 30,
     denseThreshold |-> 1, hexThreshold |-> 90, alnumPunctThreshold |-> 3]

zrGeneralCoefficients == <<9315, 6002, -11969, -6224, -4560, 17567, 31898, -46306>>

zrCapitalCoefficients == <<20163, 0, 0, 0, 0, 0, 0, 0>>

\* the table with the general coefficients in every category
zrCoefficientsAllGeneral(category) == zrGeneralCoefficients

zrCoefficientsByCategory(category) ==
    CASE category = zrCategoryGeneral -> zrGeneralCoefficients
      [] category = zrCategoryCapital -> zrCapitalCoefficients
      [] category = zrCategoryDense -> zrGeneralCoefficients
      [] category = zrCategoryHex -> zrGeneralCoefficients
      [] category = zrCategoryAlnum -> zrCapitalCoefficients
      [] OTHER -> <<>>

tokenXSegmentTypeWhitespace == 1
tokenXSegmentTypePunctuation == 2
tokenXSegmentTypeOther == 3

\* isPunctuation without the two quotes
isTokenXPunct(r) ==
    r \in {46, 44, 33, 63, 59, 40, 41, 123, 125, 91, 93, 60, 62, 58, 47, 92, 124,
           64, 35, 36, 37, 94, 38, 42, 43, 61, 96, 126, 95, 45}

tokenXSegmentTypeForRune(r) ==
    IF IsSpace(r) THEN tokenXSegmentTypeWhitespace
    ELSE IF isTokenXPunct(r) THEN tokenXSegmentTypePunctuation
    ELSE tokenXSegmentTypeOther

\* unicode.IsUpper on Basic Latin and Latin-1 (false on the CJK, emoji and
\* error runes of the model)
IsUpper(r) == InRange(r, 65, 90) \/ InRange(r, 192, 214) \/ InRange(r, 216, 222)

isHexRune(r) == InRange(r, 48, 57) \/ InRange(r, 97, 102) \/ InRange(r, 65, 70)

isTokenXWhitespace(runes) ==
    DOMAIN runes # {} /\ \A i \in DOMAIN runes : IsSpace(runes[i])

containsTokenXPunct(runes) == \E i \in DOMAIN runes : isTokenXPunct(runes[i])

zrStatsZero ==
    [TotalRunes |-> 0, CJKRunes |-> 0, PunctRunes |-> 0, DigitRunes |-> 0,
     SpaceRunes |-> 0, UpperRunes |-> 0, HexRunes |-> 0]

\* what the runes of a segment add to the statistics
zrSegmentStats(runes) ==
    [TotalRunes |-> Cardinality(DOMAIN runes),
     CJKRunes |-> CountRunes(runes, isCJKRune),
     PunctRunes |-> CountRunes(runes, isTokenXPunct),
     DigitRunes |-> CountRunes(runes, LAMBDA r : InRange(r, 48, 57)),
     SpaceRunes |-> 0,
     UpperRunes |-> CountRunes(runes, IsUpper),
     HexRunes |-> CountRunes(runes, isHexRune)]

\* the base tokens of a segment that is not white space
zrSegmentBase(runes, n, runeCount, cfg) ==
    IF isCJKSegment(runes) THEN runeCount
    ELSE IF isNumericSegment(runes, n) THEN 1
    ELSE IF runeCount <= cfg.shortThreshold THEN 1
    ELSE IF containsTokenXPunct(runes)
    THEN (IF runeCount > 1 THEN CeilDiv(runeCount, 2) ELSE 1)
    ELSE IF isAlphanumericSegment(runes)
    THEN ceilRunesPerToken(runeCount,
             charsPerTokenOr(getLanguageSpecificCharsPerToken(runes), cfg.charsPerToken))
    ELSE runeCount

\* the base tokens of one segment and what it adds to the statistics
estimateZRTokenXSegment(runes, n, cfg) ==
    IF n = 0 \/ isTokenXWhitespace(runes)
    THEN [base |-> 0, stats |-> zrStatsZero]
    ELSE [base |-> zrSegmentBase(runes, n, Cardinality(DOMAIN runes), cfg),
          stats |-> zrSegmentStats(runes)]

addZRStats(a, b) == [f \in DOMAIN a |-> a[f] + b[f]]

addZRSegment(seg, rest) ==
    [base |-> seg.base + rest.base, stats |-> addZRStats(seg.stats, rest.stats)]

\* the segments from Go index segmentStart on: a segment ends where the
\* segment type of the runes changes
RECURSIVE zrSegmentLoop(_, _, _)

zrSegmentTo(text, segmentStart, e, cfg) ==
    addZRSegment(estimateZRTokenXSegment(RuneMap(Slice(text, segmentStart, e)),
                                         e - segmentStart, cfg),
                 zrSegmentLoop(text, e, cfg))

\* d = <<r, size>> decoded at segmentStart
zrSegmentFrom(text, segmentStart, d, cfg) ==
    zrSegmentTo(text, segmentStart,
                runEnd(text, segmentStart + d[2],
                       LAMBDA r : tokenXSegmentTypeForRune(r)
                                    = tokenXSegmentTypeForRune(d[1])),
                cfg)

zrSegmentLoop(text, segmentStart, cfg) ==
    IF segmentStart >= Len(text) THEN [base |-> 0, stats |-> zrStatsZero]
    ELSE zrSegmentFrom(text, segmentStart, DecodeRune(text, segmentStart + 1), cfg)

withSpaceRunes(r, spaces) ==
    [base |-> r.base, stats |-> [r.stats EXCEPT !.SpaceRunes = spaces]]

estimateZRTokenXWithStats(text, cfg) ==
    withSpaceRunes(zrSegmentLoop(text, 0, cfg), CountRunes(RuneMap(text), IsSpace))

\* classifyZR with the test of the hex ratio moved before all others
classifyZRHexFirst(stats, cfg) ==
    LET total == stats.TotalRunes
    IN  IF total < 50 THEN zrCategoryGeneral
        ELSE IF /\ stats.SpaceRunes * 100 < cfg.denseThreshold * total
                /\ stats.HexRunes * 100 > cfg.hexThreshold * total
        THEN zrCategoryHex
        ELSE IF stats.UpperRunes * 100 > cfg.capitalThreshold * total THEN zrCategoryCapital
        ELSE IF stats.SpaceRunes * 100 < cfg.denseThreshold * total
        THEN IF stats.PunctRunes * 100 < cfg.alnumPunctThreshold * total
             THEN zrCategoryAlnum
             ELSE zrCategoryDense
        ELSE zrCategoryGeneral

classifyZR(stats, cfg) ==
    LET total == stats.TotalRunes
    IN  IF total = 0 THEN zrCategoryGeneral
        ELSE IF total < 50 THEN zrCategoryGeneral
        ELSE IF stats.UpperRunes * 100 > cfg.capitalThreshold * total THEN zrCategoryCapital
        ELSE IF stats.SpaceRunes * 100 < cfg.denseThreshold * total
        THEN IF stats.HexRunes * 100 > cfg.hexThreshold * total THEN zrCategoryHex
             ELSE IF stats.PunctRunes * 100 < cfg.alnumPunctThreshold * total
             THEN zrCategoryAlnum
             ELSE zrCategoryDense
        ELSE zrCategoryGeneral

RECURSIVE GCD(_, _)
GCD(a, b) == IF b = 0 THEN a ELSE GCD(b, a % b)

\* zrPredict over buildZRFeatures, as the exact fraction <<n, d>> of base:
\* pred = base * n / d, with the ratios cjk/total, punct/total, digit/total
\* reduced to a common denominator t
zrPredictPerBase(coeffs, stats) ==
    LET total == IF stats.TotalRunes = 0 THEN 1 ELSE stats.TotalRunes
        g == GCD(GCD(GCD(total, stats.CJKRunes), stats.PunctRunes), stats.DigitRunes)
        t == total \div g
        c == stats.CJKRunes \div g
        p == stats.PunctRunes \div g
        d == stats.DigitRunes \div g
        k(i) == IF i <= Len(coeffs) THEN coeffs[i] ELSE 0
    IN  << k(1) * t * t + k(2) * c * t + k(3) * p * t + k(4) * d * t
             + k(5) * c * c + k(6) * p * p + k(7) * d * d + k(8) * c * p,
           10000 * t * t >>

\* the coefficients of the category, those of the general one when it has none
zrCoefficientsFor(category) ==
    IF Len(zrCoefficientsByCategory(category)) = 0
    THEN zrCoefficientsByCategory(zrCategoryGeneral)
    ELSE zrCoefficientsByCategory(category)

\* estimateZR without the test pred < 0
zrPredictTokensUnclamped(base, f) ==
    IF base = 0 THEN 0
    ELSE base * (f[1] \div f[2]) + CeilDiv(base * (f[1] % f[2]), f[2])

\* int(math.Ceil(pred)) for pred = base * f[1] / f[2], 0 when pred < 0
zrPredictTokens(base, f) ==
    IF base = 0 THEN 0
    ELSE IF f[1] < 0 THEN 0
    ELSE base * (f[1] \div f[2]) + CeilDiv(base * (f[1] % f[2]), f[2])

zrTokensOfStats(r) ==
    zrPredictTokens(r.base,
        zrPredictPerBase(zrCoefficientsFor(classifyZR(r.stats, zrConfigDefault)),
                         r.stats))

estimateZR(text) ==
    IF Len(text) = 0 THEN 0
    ELSE zrTokensOfStats(estimateZRTokenXWithStats(text, zrConfigDefault))

(***************************************************************************)
(* The second estimateWeighted of the repository: the token count of the   *)
(* tokenx scan, tuned by ratios and clamped (factors in hundredths)        *)
(***************************************************************************)

weightedV2ClampMin == 85
weightedV2ClampMax == 120
tokenXShortTokenThreshold == 3

tuningForProfile(profile) ==
    [baseFactor |-> 100, cjkRatioFactor |-> 0, punctRatioFactor |-> 0,
     digitRatioFactor |-> 0, clampMin |-> weightedV2ClampMin,
     clampMax |-> weightedV2ClampMax]

\* estimateTokenXWithStats is the scan of estimateZRTokenXWithStats with the
\* constants tokenXShortTokenThreshold and defaultCharsPerToken
estimateTokenXWithStats(text) ==
    estimateZRTokenXWithStats(text,
        [zrConfigDefault EXCEPT !.charsPerToken = defaultCharsPerToken,
                                !.shortThreshold = tokenXShortTokenThreshold])

\* an entry of units/den base units, left out when units or weight is 0
appendBreakdownItem(category, units, den, weight) ==
    IF units = 0 \/ weight = 0 THEN <<>>
    ELSE <<[Category |-> category, BaseUnits |-> <<units, den>>, Weight |-> weight,
            Tokens |-> <<units * weight, den>>]>>

\* the entries for tokens = clamped / (100 * total), raw before the clamp
ratioTunedItems(base, total, stats, tuning, raw, clamped) ==
    appendBreakdownItem("base", base, 1, tuning.baseFactor)
    \o appendBreakdownItem("ratio_cjk", base * stats.CJKRunes, total,
                           tuning.cjkRatioFactor)
    \o appendBreakdownItem("ratio_punct", base * stats.PunctRunes, total,
                           tuning.punctRatioFactor)
    \o appendBreakdownItem("ratio_digit", base * stats.DigitRunes, total,
                           tuning.digitRatioFactor)
    \o appendBreakdownItem("clamp", clamped - raw, 100 * total, 100)

ratioTunedClamp(base, total, stats, tuning, raw, explain) ==
    [tokens |-> CeilDiv(MinOf({MaxOf({raw, base * tuning.clampMin * total}),
                               base * tuning.clampMax * total}), 100 * total),
     breakdown |->
        IF explain
        THEN ratioTunedItems(base, total, stats, tuning, raw,
                 MinOf({MaxOf({raw, base * tuning.clampMin * total}),
                        base * tuning.clampMax * total}))
        ELSE <<>>]

\* tokens * 100 * total before the clamp
ratioTunedRaw(base, total, stats, tuning) ==
    base * (tuning.baseFactor * total + tuning.cjkRatioFactor * stats.CJKRunes
            + tuning.punctRatioFactor * stats.PunctRunes
            + tuning.digitRatioFactor * stats.DigitRunes)

ratioTunedTotal(stats) == IF stats.TotalRunes = 0 THEN 1 ELSE stats.TotalRunes

ratioTunedResult(r, tuning, explain) ==
    IF r.base = 0 THEN [tokens |-> 0, breakdown |-> <<>>]
    ELSE ratioTunedClamp(r.base, ratioTunedTotal(r.stats), r.stats, tuning,
             ratioTunedRaw(r.base, ratioTunedTotal(r.stats), r.stats, tuning),
             explain)

estimateWeightedRatioTuned(text, profile, explain) ==
    IF Len(text) = 0 THEN [tokens |-> 0, breakdown |-> <<>>]
    ELSE ratioTunedResult(estimateTokenXWithStats(text), tuningForProfile(profile),
                          explain)

(***************************************************************************)
(* The public functions.  Options = [Strategy, Profile, Model,             *)
(* ProviderType, GlobalMultiplier, Explain]; ImageCounts = [LowDetail,     *)
(* HighDetail, Unknown]; Result = [Tokens, Strategy, Profile, Breakdown].  *)
(***************************************************************************)

\* effectiveBytesStrategy with the default of EstimateText
effectiveBytesStrategyFast(strategy) ==
    IF strategy = StrategyAuto THEN StrategyFast ELSE strategy

effectiveBytesStrategy(strategy) ==
    IF strategy = StrategyAuto THEN StrategyUltraFast ELSE strategy

effectiveTextStrategy(strategy) ==
    IF strategy = StrategyAuto THEN StrategyFast ELSE strategy

\* [tokens, breakdown] of a strategy that has no breakdown
plainTokens(tokens) == [tokens |-> tokens, breakdown |-> <<>>]

\* the switch of EstimateBytes
bytesTokens(data, strategy, opts) ==
    CASE strategy = StrategyUltraFast -> plainTokens(estimateUltraFast(data))
      [] strategy = StrategyFast -> plainTokens(estimateFast(data))
      [] strategy = StrategyWeighted ->
            estimateWeighted(data, resolveProfile(opts), opts.Explain)
      [] strategy = StrategyZR -> plainTokens(estimateZR(data))
      [] OTHER -> plainTokens(estimateUltraFast(data))

\* the switch of EstimateText
textTokens(text, strategy, opts) ==
    CASE strategy = StrategyUltraFast -> plainTokens(estimateUltraFast(text))
      [] strategy = StrategyFast -> plainTokens(estimateFast(text))
      [] strategy = StrategyWeighted ->
            estimateWeighted(text, resolveProfile(opts), opts.Explain)
      [] strategy = StrategyZR -> plainTokens(estimateZR(text))
      [] OTHER -> plainTokens(estimateFast(text))

makeResult(r, strategy, opts) ==
    [Tokens |-> applyMultiplier(r.tokens, opts.GlobalMultiplier),
     Strategy |-> strategy,
     Profile |-> resolveProfile(opts),
     Breakdown |-> r.breakdown]

bytesResult(data, strategy, opts) ==
    makeResult(bytesTokens(data, strategy, opts), strategy, opts)

textResult(text, strategy, opts) ==
    makeResult(textTokens(text, strategy, opts), strategy, opts)

EstimateBytes(data, opts) ==
    bytesResult(data, effectiveBytesStrategy(opts.Strategy), opts)

EstimateText(text, opts) ==
    textResult(text, effectiveTextStrategy(opts.Strategy), opts)

\* result.Tokens += imageTokens + overhead, then the multiplier
inputResult(result, imageTokens, overhead, multiplier) ==
    [result EXCEPT !.Tokens = applyMultiplier(@ + imageTokens + overhead, multiplier)]

\* EstimateInput that leaves the multiplier on for the text as well
EstimateInputTextMultiplied(text, images, messageCount, opts) ==
    inputResult(EstimateText(text, opts),
                images.LowDetail * ImageTokensLow
                  + images.HighDetail * ImageTokensHigh
                  + images.Unknown * ImageTokensDefault,
                BaseOverhead + messageCount * PerMessageOverhead,
                opts.GlobalMultiplier)

EstimateInput(text, images, messageCount, opts) ==
    inputResult(EstimateText(text, [opts EXCEPT !.GlobalMultiplier = Mul(1, 1)]),
                images.LowDetail * ImageTokensLow
                  + images.HighDetail * ImageTokensHigh
                  + images.Unknown * ImageTokensDefault,
                BaseOverhead + messageCount * PerMessageOverhead,
                opts.GlobalMultiplier)

EstimateOutput(text, opts) == EstimateText(text, opts)

(***************************************************************************)
(* estimator.go: the Estimator interface.  An estimator is named by a      *)
(* string; a method is "bytes", "text", "input" or "output".               *)
(***************************************************************************)

ZeroImages == [LowDetail |-> 0, HighDetail |-> 0, Unknown |-> 0]

Opts(strategy, profile, model, providerType, multiplier, explain) ==
    [Strategy |-> strategy, Profile |-> profile, Model |-> model,
     ProviderType |-> providerType, GlobalMultiplier |-> multiplier,
     Explain |-> explain]

\* a call: the method and its arguments (images and messageCount are those
\* of EstimateInput, zero for the other methods)
Args(kind, text, images, messageCount, opts) ==
    [kind |-> kind, text |-> text, images |-> images,
     messageCount |-> messageCount, opts |-> opts]

\* defaultEstimator: each method is the package function of its name
defaultEstimator(method, a) ==
    CASE method = "bytes" -> EstimateBytes(a.text, a.opts)
      [] method = "text" -> EstimateText(a.text, a.opts)
      [] method = "input" -> EstimateInput(a.text, a.images, a.messageCount, a.opts)
      [] method = "output" -> EstimateOutput(a.text, a.opts)

\* another implementation of the interface, deterministic like the default
\* one: its EstimateOutput counts one token more than its EstimateText
addOutputToken(r) == [r EXCEPT !.Tokens = @ + 1]

outputEstimator(method, a) ==
    IF method = "output" THEN addOutputToken(defaultEstimator("text", a))
    ELSE defaultEstimator(method, a)

Estimators == {"default", "output"}

\* est.Estimate<method>(a)
estimate(est, method, a) ==
    IF est = "output" THEN outputEstimator(method, a) ELSE defaultEstimator(method, a)

(***************************************************************************)
(* cache.go: the cache key                                                 *)
(***************************************************************************)

defaultCacheMinTextBytes == 512

\* binary.LittleEndian.PutUint64 of uint64(v): two's complement for v < 0
writeUint64(v) ==
    IF v >= 0
    THEN [k \in 1..8 |-> IF k <= 4 THEN (v \div (256 ^ (k - 1))) % 256 ELSE 0]
    ELSE [k \in 1..8 |-> IF k <= 4 THEN 255 - (((-v - 1) \div (256 ^ (k - 1))) % 256)
                         ELSE 255]

boolToUint64(v) == IF v THEN 1 ELSE 0

\* the number of bits of n >= 1
BitLen(n) == CHOOSE len \in 1..20 : 2 ^ (len - 1) <= n /\ n < 2 ^ len

\* s with 2^s = d
Log2(d) == CHOOSE s \in 0..20 : 2 ^ s = d

\* the eight bytes of an IEEE 754 double, least significant first: sign,
\* biased exponent e, and the top 20 bits of the fraction (the rest are 0)
float64Fields(sign, e, fraction20) ==
    <<0, 0, 0, 0, fraction20 % 256, (fraction20 \div 256) % 256,
      (e % 16) * 16 + fraction20 \div 65536, sign * 128 + e \div 16>>

\* a = |num| has bitLen bits: the value is 1.f * 2^(bitLen - 1 - log2(den))
float64Normal(sign, a, bitLen, den) ==
    float64Fields(sign, bitLen - 1 - Log2(den) + 1023,
                  (a - 2 ^ (bitLen - 1)) * 2 ^ (21 - bitLen))

Abs(n) == IF n < 0 THEN -n ELSE n

\* writeUint64 of math.Float64bits(multiplier)
writeFloat64bits(multiplier) ==
    IF multiplier.num = 0 THEN [k \in 1..8 |-> 0]
    ELSE float64Normal(IF multiplier.num < 0 THEN 1 ELSE 0, Abs(multiplier.num),
                       BitLen(Abs(multiplier.num)), multiplier.den)

\* the bytes hashKey writes to the hash
hashWrites(strategy, profile, opts, data, images, messageCount, kind) ==
    writeUint64(kind) \o writeUint64(strategy) \o writeUint64(profile)
      \o writeFloat64bits(opts.GlobalMultiplier)
      \o writeUint64(boolToUint64(opts.Explain))
      \o writeUint64(messageCount)
      \o writeUint64(images.LowDetail)
      \o writeUint64(images.HighDetail)
      \o writeUint64(images.Unknown)
      \o writeUint64(BaseOverhead)
      \o writeUint64(PerMessageOverhead)
      \o writeUint64(ImageTokensLow)
      \o writeUint64(ImageTokensHigh)
      \o writeUint64(ImageTokensDefault)
      \o data

\* h.Sum64() after the bytes w were written.  The seeded hash is taken to be
\* one-to-one; its value is written as the runs of equal bytes of w with
\* the length of w, which determine w
Sum64(w) ==
    [len |-> Len(w),
     runs |-> {<<i, w[i]>> : i \in {j \in 1..Len(w) : j = 1 \/ w[j] # w[j - 1]}}]

hashKey(strategy, profile, opts, data, images, messageCount, kind) ==
    Sum64(hashWrites(strategy, profile, opts, data, images, messageCount, kind))

cacheKeyBytes(data, opts) ==
    hashKey(effectiveBytesStrategy(opts.Strategy), resolveProfile(opts), opts, data,
            ZeroImages, 0, 98)

\* cacheKeyText with the profile left out of the key
cacheKeyTextWithoutProfile(text, opts) ==
    hashKey(effectiveTextStrategy(opts.Strategy), ProfileAuto, opts, text,
            ZeroImages, 0, 116)

cacheKeyText(text, opts) ==
    hashKey(effectiveTextStrategy(opts.Strategy), resolveProfile(opts), opts, text,
            ZeroImages, 0, 116)

cacheKeyInput(text, images, messageCount, opts) ==
    hashKey(effectiveTextStrategy(opts.Strategy), resolveProfile(opts), opts, text,
            images, messageCount, 105)

\* cachedEstimator.EstimateOutput is cachedEstimator.EstimateText
cachedMethod(kind) == IF kind = "output" THEN "text" ELSE kind

\* the key the method of the cachedEstimator computes for its call
cacheKey(a) ==
    CASE cachedMethod(a.kind) = "bytes" -> cacheKeyBytes(a.text, a.opts)
      [] cachedMethod(a.kind) = "text" -> cacheKeyText(a.text, a.opts)
      [] cachedMethod(a.kind) = "input" ->
            cacheKeyInput(a.text, a.images, a.messageCount, a.opts)

(***************************************************************************)
(* container/list, as far as lruCache uses it: a list is the sequence of   *)
(* its cacheEntry values, front first                                      *)
(***************************************************************************)

cacheEntry(k, value) == [key |-> k, value |-> value]

\* the position of the element items[k] points to
ElementOf(l, k) == CHOOSE i \in 1..Len(l) : l[i].key = k

MoveToFront(l, i) == <<l[i]>> \o SubSeq(l, 1, i - 1) \o SubSeq(l, i + 1, Len(l))

PushFront(l, e) == <<e>> \o l

Back(l) == l[Len(l)]

RemoveBack(l) == SubSeq(l, 1, Len(l) - 1)

(***************************************************************************)
(* State                                                                   *)
(***************************************************************************)

VARIABLES
    req,        \* a direct call of a public function: <<its arguments>>
    res,        \* <<the Result of the direct call>>, <<>> before it returns
    inner,      \* cachedEstimator.inner
    cap,        \* lruCache.cap
    ll,         \* lruCache.ll: the entries, front first
    items,      \* lruCache.items: the keys of the index
    pc,         \* per caller of the cachedEstimator: where its call stands
    args,       \* per caller: <<the arguments of its call>>
    val,        \* per caller: <<the Result its call returned>>
    callInner,  \* per caller: invocations of the inner estimator by its call
    started,    \* number of calls made on the cachedEstimator so far
    recent,     \* every key used, by its last Get hit or Add, latest first
    prev        \* per caller: <<its call before this one, with its inner count>>

vars == <<req, res, inner, cap, ll, items, pc, args, val, callInner, started,
          recent, prev>>

cacheVars == <<inner, cap, ll, items, pc, args, val, callInner, started, recent,
               prev>>

(***************************************************************************)
(* Inputs of the direct calls                                              *)
(***************************************************************************)

MaxTextUnits == 2

\* a, A, 1, space, newline, '.', '@', U+4F60, U+00E4, U+1F600, and the
\* bytes 0xFF and 0x80, which are not valid UTF-8 on their own
TextUnits ==
    {<<97>>, <<65>>, <<49>>, <<32>>, <<10>>, <<46>>, <<64>>, <<228, 189, 160>>,
     <<195, 164>>, <<240, 159, 152, 128>>, <<255>>, <<128>>}

RECURSIVE TextsOfUnits(_)
TextsOfUnits(n) ==
    IF n = 0 THEN {<<>>}
    ELSE LET shorter == TextsOfUnits(n - 1)
         IN  shorter \cup {t \o u : t \in shorter, u \in TextUnits}

LongTexts == {Repeat(97, 511), Repeat(97, 1001)}

\* a value of the type Strategy that is none of the five constants
OtherStrategy == 7

Strategies ==
    {StrategyAuto, StrategyUltraFast, StrategyFast, StrategyWeighted, StrategyZR,
     OtherStrategy}

Profiles == {ProfileAuto, ProfileOpenAI, ProfileClaude, ProfileGemini}

Kinds == {"bytes", "text", "input", "output"}

Multipliers == {Mul(-1, 1), Mul(0, 1), Mul(1, 4), Mul(1, 1), Mul(3, 2), Mul(2, 1)}

ImageChoices ==
    {ZeroImages,
     [LowDetail |-> 1, HighDetail |-> 0, Unknown |-> 0],
     [LowDetail |-> 0, HighDetail |-> 2, Unknown |-> 1]}

MessageCounts == {-13, 0, 2}

HintPieces == {"", " ", "x-", "anthropic", "Claude", "gemini", "GOOGLE", "openai", "qwen-2.5"}

ProviderHints == {B(a) \o B(b) : a \in HintPieces, b \in HintPieces}

ModelHints == {B(""), B("claude-3-opus"), B(" Gemini-pro"), B("qwen-2.5"), B("gemini-claude")}

\* U+4F60 and '.' three times over: half CJK, half punctuation
CJKPunctText == <<228, 189, 160, 46, 228, 189, 160, 46, 228, 189, 160, 46>>

\* every text with every strategy
TextSweep ==
    {Args(k, t, ZeroImages, 0, Opts(s, ProfileOpenAI, <<>>, <<>>, Mul(1, 1), TRUE)) :
        k \in Kinds, t \in TextsOfUnits(MaxTextUnits) \cup LongTexts \cup {CJKPunctText},
        s \in Strategies}

\* every option and overhead with a few texts
OptionSweep ==
    {Args(k, t, im, mc, Opts(s, ProfileAuto, <<>>, <<>>, m, e)) :
        k \in Kinds, t \in {<<>>, B("hello"), <<49, 50, 46, 228, 189, 160>>},
        im \in ImageChoices, mc \in MessageCounts, s \in Strategies,
        m \in Multipliers, e \in BOOLEAN}

\* every profile hint with one text
HintSweep ==
    {Args("text", B("hi"), ZeroImages, 0, Opts(StrategyWeighted, p, md, pt, Mul(1, 1), FALSE)) :
        p \in Profiles, md \in ModelHints, pt \in ProviderHints}

ApiArgs == TextSweep \cup OptionSweep \cup HintSweep

(***************************************************************************)
(* Direct calls of the four public functions                               *)
(***************************************************************************)

ApiInit ==
    /\ req \in {<<a>> : a \in ApiArgs}
    /\ res = <<>>
    /\ inner = "default"
    /\ cap = 0
    /\ ll = <<>>
    /\ items = {}
    /\ pc = <<>>
    /\ args = <<>>
    /\ val = <<>>
    /\ callInner = <<>>
    /\ started = 0
    /\ recent = <<>>
    /\ prev = <<>>

CallEstimateBytes ==
    /\ req # <<>> /\ res = <<>> /\ req[1].kind = "bytes"
    /\ res' = <<EstimateBytes(req[1].text, req[1].opts)>>
    /\ UNCHANGED <<req, cacheVars>>

CallEstimateText ==
    /\ req # <<>> /\ res = <<>> /\ req[1].kind = "text"
    /\ res' = <<EstimateText(req[1].text, req[1].opts)>>
    /\ UNCHANGED <<req, cacheVars>>

CallEstimateInput ==
    /\ req # <<>> /\ res = <<>> /\ req[1].kind = "input"
    /\ res' = <<EstimateInput(req[1].text, req[1].images, req[1].messageCount, req[1].opts)>>
    /\ UNCHANGED <<req, cacheVars>>

CallEstimateOutput ==
    /\ req # <<>> /\ res = <<>> /\ req[1].kind = "output"
    /\ res' = <<EstimateOutput(req[1].text, req[1].opts)>>
    /\ UNCHANGED <<req, cacheVars>>

ApiNext ==
    \/ CallEstimateBytes
    \/ CallEstimateText
    \/ CallEstimateInput
    \/ CallEstimateOutput

ApiSpec == ApiInit /\ [][ApiNext]_vars

(***************************************************************************)
(* Properties of the direct calls                                          *)
(***************************************************************************)

\* C1: for every byte payload b, EstimateBytes(b, {Strategy: UltraFast}) with a
\* multiplier that changes nothing (1, or not positive) returns
\* Tokens = ceil(len(b)/4), and Tokens = 0 exactly when len(b) = 0.
C1_UltraFastCeilQuarter ==
    (/\ res # <<>>
     /\ req[1].kind = "bytes"
     /\ req[1].opts.Strategy = StrategyUltraFast
     /\ \/ req[1].opts.GlobalMultiplier.num <= 0
        \/ req[1].opts.GlobalMultiplier.num = req[1].opts.GlobalMultiplier.den)
    => /\ 4 * res[1].Tokens >= Len(req[1].text)
       /\ 4 * (res[1].Tokens - 1) < Len(req[1].text)
       /\ (res[1].Tokens = 0 <=> Len(req[1].text) = 0)

\* 511 bytes count as 128 tokens
C1_Witness ==
    /\ res # <<>>
    /\ req[1].kind = "bytes"
    /\ req[1].opts.Strategy = StrategyUltraFast
    /\ Len(req[1].text) = 511
    /\ res[1].Tokens = 128

\* C2: EstimateInput returns Tokens = M(T + LowDetail*85 + HighDetail*765
\* + Unknown*500 + 50 + 4*messageCount), where T is the token count of
\* EstimateText with the multiplier forced to 1 and M applies GlobalMultiplier
\* once to the whole sum: the sum itself when the multiplier is 1 or not
\* positive, the ceiling of sum * multiplier otherwise.
C2_InputSumMultipliedOnce ==
    (res # <<>> /\ req[1].kind = "input")
    => LET a == req[1]
           m == a.opts.GlobalMultiplier
           T == EstimateText(a.text, [a.opts EXCEPT !.GlobalMultiplier = Mul(1, 1)]).Tokens
           sum == T + a.images.LowDetail * 85 + a.images.HighDetail * 765
                    + a.images.Unknown * 500 + 50 + 4 * a.messageCount
       IN  IF m.num <= 0 \/ m.num = m.den THEN res[1].Tokens = sum
           ELSE /\ res[1].Tokens * m.den >= sum * m.num
                /\ (res[1].Tokens - 1) * m.den < sum * m.num

\* "hello" with two high-detail images, one of unknown detail and two
\* messages under the multiplier 1.5: ceil((2 + 1530 + 500 + 50 + 8) * 1.5)
C2_Witness ==
    /\ res # <<>>
    /\ req[1].kind = "input"
    /\ req[1].text = B("hello")
    /\ req[1].opts.Strategy = StrategyAuto
    /\ req[1].images = [LowDetail |-> 0, HighDetail |-> 2, Unknown |-> 1]
    /\ req[1].messageCount = 2
    /\ req[1].opts.GlobalMultiplier = Mul(3, 2)
    /\ res[1].Tokens = 3135

\* C7: for every public call with any strategy, any GlobalMultiplier, image
\* counts that are not negative and any integer messageCount,
\* Result.Tokens >= 0.
C7_TokensNeverNegative ==
    (/\ res # <<>>
     /\ req[1].images.LowDetail >= 0
     /\ req[1].images.HighDetail >= 0
     /\ req[1].images.Unknown >= 0)
    => res[1].Tokens >= 0

\* C8: profile resolution is first match wins in a fixed order: a Profile
\* that is not Auto is returned whatever the hints say; otherwise a matching
\* ProviderType decides whatever the Model is; otherwise a Model containing
\* "claude" or "gemini" decides; otherwise OpenAI.  The resolved profile is
\* never Auto.
C8_ProfileResolutionOrder ==
    res # <<>>
    => LET o == req[1].opts
           p == res[1].Profile
           providerType == ToLower(TrimSpace(o.ProviderType))
           model == ToLower(TrimSpace(o.Model))
           providerMatches ==
               \/ providerType \in {B("anthropic"), B("gemini"), B("google"), B("openai")}
               \/ Contains(providerType, B("claude"))
               \/ Contains(providerType, B("gemini"))
               \/ Contains(providerType, B("openai"))
           sameCall(opts) == defaultEstimator(req[1].kind, [req[1] EXCEPT !.opts = opts])
       IN  /\ p # ProfileAuto
           /\ o.Profile # ProfileAuto => p = o.Profile
           /\ (o.Profile = ProfileAuto /\ providerMatches)
                => \A md \in ModelHints : sameCall([o EXCEPT !.Model = md]).Profile = p
           /\ (o.Profile = ProfileAuto /\ ~providerMatches)
                => /\ (Contains(model, B("claude")) \/ Contains(model, B("gemini")))
                        => /\ p \in {ProfileClaude, ProfileGemini}
                           /\ p = ProfileClaude => Contains(model, B("claude"))
                           /\ p = ProfileGemini => Contains(model, B("gemini"))
                   /\ (~Contains(model, B("claude")) /\ ~Contains(model, B("gemini")))
                        => p = ProfileOpenAI

\* the provider type "anthropic" decides Claude against a Gemini model
C8_Witness ==
    /\ res # <<>>
    /\ req[1].opts.Profile = ProfileAuto
    /\ req[1].opts.ProviderType = B("anthropic")
    /\ req[1].opts.Model = B(" Gemini-pro")
    /\ res[1].Profile = ProfileClaude

\* C9, as the code has it: with Profile = Auto and the ProviderType trimmed
\* and lower-cased, one that equals "anthropic" or contains "claude" resolves
\* to Claude; failing that, one that equals "gemini" or "google" or contains
\* "gemini" resolves to Gemini; failing that, one that contains "openai"
\* resolves to OpenAI, whatever the Model hint.
C9_ProviderTypeFirstMatch ==
    (res # <<>> /\ req[1].opts.Profile = ProfileAuto)
    => LET providerType == ToLower(TrimSpace(req[1].opts.ProviderType))
           claude == providerType = B("anthropic") \/ Contains(providerType, B("claude"))
           gemini == \/ providerType \in {B("gemini"), B("google")}
                     \/ Contains(providerType, B("gemini"))
           openai == Contains(providerType, B("openai"))
       IN  /\ claude => res[1].Profile = ProfileClaude
           /\ (~claude /\ gemini) => res[1].Profile = ProfileGemini
           /\ (~claude /\ ~gemini /\ openai) => res[1].Profile = ProfileOpenAI

\* a provider type that contains both "claude" and "gemini" resolves to Claude
C9_Witness ==
    /\ res # <<>>
    /\ req[1].opts.Profile = ProfileAuto
    /\ req[1].opts.ProviderType = B("geminiClaude")
    /\ req[1].opts.Model = B("qwen-2.5")
    /\ res[1].Profile = ProfileClaude

\* C9: with Profile = Auto, a ProviderType that case-insensitively equals or
\* contains "anthropic" or "claude" resolves to Claude, one that equals or
\* contains "gemini" or "google" resolves to Gemini, and one that equals or
\* contains "openai" resolves to OpenAI, for every ProviderType and Model.
C9_ProviderTypeContains ==
    (res # <<>> /\ req[1].opts.Profile = ProfileAuto)
    => LET providerType == ToLower(req[1].opts.ProviderType)
       IN  /\ (Contains(providerType, B("anthropic")) \/ Contains(providerType, B("claude")))
                => res[1].Profile = ProfileClaude
           /\ (Contains(providerType, B("gemini")) \/ Contains(providerType, B("google")))
                => res[1].Profile = ProfileGemini
           /\ Contains(providerType, B("openai")) => res[1].Profile = ProfileOpenAI

\* C10: with Strategy = Auto, EstimateBytes reports Strategy = UltraFast and
\* returns what it returns for UltraFast, EstimateText reports Strategy = Fast
\* and returns what it returns for Fast; for the five defined strategies the
\* reported strategy is never Auto.
C10_AutoStrategyDefaults ==
    res # <<>>
    => /\ (req[1].kind = "bytes" /\ req[1].opts.Strategy = StrategyAuto)
            => /\ res[1].Strategy = StrategyUltraFast
               /\ res[1] = EstimateBytes(req[1].text,
                              [req[1].opts EXCEPT !.Strategy = StrategyUltraFast])
       /\ (req[1].kind = "text" /\ req[1].opts.Strategy = StrategyAuto)
            => /\ res[1].Strategy = StrategyFast
               /\ res[1] = EstimateText(req[1].text,
                              [req[1].opts EXCEPT !.Strategy = StrategyFast])
       /\ req[1].opts.Strategy \in {StrategyAuto, StrategyUltraFast, StrategyFast,
                                    StrategyWeighted, StrategyZR}
            => res[1].Strategy # StrategyAuto

\* three bytes of one CJK rune: one token as bytes, where Fast counts two
C10_Witness ==
    /\ res # <<>>
    /\ req[1].kind = "bytes"
    /\ req[1].opts.Strategy = StrategyAuto
    /\ req[1].text = <<228, 189, 160>>
    /\ res[1].Strategy = StrategyUltraFast
    /\ res[1].Tokens = 1

(***************************************************************************)
(* EstimateText with the Weighted strategy, for each of the two            *)
(* estimateWeighted of the repository                                      *)
(***************************************************************************)

WeightedArgs ==
    {Args("text", t, ZeroImages, 0,
          Opts(StrategyWeighted, p, <<>>, <<>>, Mul(1, 1), e)) :
        t \in TextsOfUnits(MaxTextUnits) \cup {B("123"), B("2024"), CJKPunctText},
        p \in Profiles, e \in BOOLEAN}

WeightedInit ==
    /\ req \in {<<a>> : a \in WeightedArgs}
    /\ res = <<>>
    /\ inner = "default"
    /\ cap = 0
    /\ ll = <<>>
    /\ items = {}
    /\ pc = <<>>
    /\ args = <<>>
    /\ val = <<>>
    /\ callInner = <<>>
    /\ started = 0
    /\ recent = <<>>
    /\ prev = <<>>

\* EstimateText where estimateWeighted is the one tuned by ratios
CallEstimateTextRatioTuned ==
    /\ req # <<>> /\ res = <<>> /\ req[1].kind = "text"
    /\ req[1].opts.Strategy = StrategyWeighted
    /\ res' = <<makeResult(estimateWeightedRatioTuned(req[1].text,
                               resolveProfile(req[1].opts), req[1].opts.Explain),
                           StrategyWeighted, req[1].opts)>>
    /\ UNCHANGED <<req, cacheVars>>

WeightedNext ==
    \/ CallEstimateText
    \/ CallEstimateTextRatioTuned

WeightedSpec == WeightedInit /\ [][WeightedNext]_vars

(***************************************************************************)
(* Calls on a cachedEstimator = WithCache(inner, cap), cap > 0.            *)
(* Get and Add hold c.mu from their first statement to their return, so    *)
(* each is one step; the call of the inner estimator is a step of its own. *)
(***************************************************************************)

MaxCallers == 2

MaxCacheSize == 2

MaxCalls == 4

Callers == 1..MaxCallers

LongA == Repeat(97, defaultCacheMinTextBytes)

LongB == Repeat(98, defaultCacheMinTextBytes + 1)

ShortA == Repeat(97, defaultCacheMinTextBytes - 1)

PlainOpts == Opts(StrategyAuto, ProfileAuto, <<>>, <<>>, Mul(1, 1), FALSE)

\* the calls made on the cachedEstimator
CacheArgs ==
    {Args("text", LongA, ZeroImages, 0, PlainOpts),
     Args("output", LongA, ZeroImages, 0, PlainOpts),
     Args("input", LongA, ZeroImages, 0, PlainOpts),
     Args("bytes", LongB, ZeroImages, 0, PlainOpts),
     Args("text", ShortA, ZeroImages, 0, PlainOpts)}

\* the calls made concurrently: three keys
ConcurrentArgs == {a \in CacheArgs : a.kind # "output" /\ a.text # ShortA}

MaxKeyCalls == 2

KeyOpts == Opts(StrategyWeighted, ProfileOpenAI, <<>>, <<>>, Mul(1, 1), FALSE)

\* calls on one text that differ in one part of the key, and calls that
\* differ in the options but not in what they resolve to
KeyArgs ==
    {Args("text", LongA, ZeroImages, 0, o) :
        o \in {KeyOpts,
               [KeyOpts EXCEPT !.Profile = ProfileClaude],
               [KeyOpts EXCEPT !.Profile = ProfileAuto, !.Model = B("claude-3-opus")],
               [KeyOpts EXCEPT !.Strategy = StrategyFast],
               [KeyOpts EXCEPT !.Strategy = StrategyAuto],
               [KeyOpts EXCEPT !.GlobalMultiplier = Mul(3, 2)],
               [KeyOpts EXCEPT !.GlobalMultiplier = Mul(0, 1)],
               [KeyOpts EXCEPT !.Explain = TRUE]}}
    \cup {Args("bytes", LongA, ZeroImages, 0, KeyOpts),
          Args("input", LongA, ZeroImages, 0, KeyOpts),
          Args("input", LongA, ZeroImages, 2, KeyOpts),
          Args("input", LongA, [ZeroImages EXCEPT !.LowDetail = 1], 0, KeyOpts)}

\* what hashKey writes for a call besides the payload and the constants:
\* kind, strategy, profile, multiplier, Explain, messageCount, image counts
keyFields ==
    [a \in KeyArgs |->
        <<cachedMethod(a.kind),
          IF cachedMethod(a.kind) = "bytes" THEN effectiveBytesStrategy(a.opts.Strategy)
          ELSE effectiveTextStrategy(a.opts.Strategy),
          resolveProfile(a.opts), a.opts.GlobalMultiplier, a.opts.Explain,
          a.messageCount, a.images>>]

\* calls of the four methods with 511 bytes, and two calls that are cached
BypassArgs ==
    {Args(k, ShortA, ZeroImages, 0, PlainOpts) : k \in {"text", "output", "input", "bytes"}}
      \cup {Args("text", LongA, ZeroImages, 0, PlainOpts),
            Args("bytes", LongB, ZeroImages, 0, PlainOpts)}

\* the key of each call and what each estimator returns for it, computed once
cacheKeys == [a \in CacheArgs \cup KeyArgs \cup BypassArgs |-> cacheKey(a)]

innerResults ==
    [est \in Estimators |->
        [a \in CacheArgs \cup KeyArgs \cup BypassArgs |->
            estimate(est, cachedMethod(a.kind), a)]]

CacheInit ==
    /\ req = <<>>
    /\ res = <<>>
    /\ cap \in 1..MaxCacheSize
    /\ ll = <<>>
    /\ items = {}
    /\ pc = [c \in Callers |-> "idle"]
    /\ args = [c \in Callers |-> <<>>]
    /\ val = [c \in Callers |-> <<>>]
    /\ callInner = [c \in Callers |-> 0]
    /\ started = 0
    /\ recent = <<>>
    /\ prev = [c \in Callers |-> <<>>]

\* WithCache(DefaultEstimator(), cap)
Init ==
    /\ inner = "default"
    /\ CacheInit

\* WithCache(inner, size) returns inner itself when newLRU(size) is nil
WithCacheAlwaysCached(size) == "cachedEstimator"

WithCache(size) == IF size <= 0 THEN "inner" ELSE "cachedEstimator"

\* a cachedEstimator without the test of the length of the payload
EnterCallNoLengthTest(c, a) ==
    /\ pc[c] = "idle"
    /\ started < MaxCalls
    /\ started' = started + 1
    /\ args' = [args EXCEPT ![c] = <<a>>]
    /\ val' = [val EXCEPT ![c] = <<>>]
    /\ callInner' = [callInner EXCEPT ![c] = 0]
    /\ pc' = [pc EXCEPT ![c] = IF WithCache(cap) = "inner" THEN "bypass" ELSE "get"]
    /\ UNCHANGED <<req, res, inner, cap, ll, items, recent>>

\* a method of the estimator WithCache returned is entered: the inner
\* estimator itself, or the length test of the cachedEstimator
EnterCall(c, a) ==
    /\ pc[c] = "idle"
    /\ started < MaxCalls
    /\ started' = started + 1
    /\ args' = [args EXCEPT ![c] = <<a>>]
    /\ val' = [val EXCEPT ![c] = <<>>]
    /\ callInner' = [callInner EXCEPT ![c] = 0]
    /\ pc' = [pc EXCEPT ![c] = IF \/ WithCache(cap) = "inner"
                                   \/ Len(a.text) < defaultCacheMinTextBytes
                                THEN "bypass" ELSE "get"]
    /\ UNCHANGED <<req, res, inner, cap, ll, items, recent>>

CachedCall(c, a) ==
    /\ EnterCall(c, a)
    /\ UNCHANGED prev

\* the method of the inner estimator that a call reaches: the method called
\* when WithCache returned inner, the one the cachedEstimator calls otherwise
innerResult(a) ==
    IF WithCache(cap) = "inner" THEN estimate(inner, a.kind, a)
    ELSE innerResults[inner][a]

\* c.inner.Estimate...(...), on the bypass and after a miss
InnerCall(c) ==
    /\ pc[c] \in {"bypass", "miss"}
    /\ val' = [val EXCEPT ![c] = <<innerResult(args[c][1])>>]
    /\ callInner' = [callInner EXCEPT ![c] = @ + 1]
    /\ pc' = [pc EXCEPT ![c] = IF pc[c] = "bypass" THEN "idle" ELSE "add"]
    /\ UNCHANGED <<req, res, inner, cap, ll, items, args, started, recent, prev>>

\* the keys by their last Get hit or Add, latest first, after one of k
\* (a history of the accesses, kept beside the list)
Touch(keys, k) == <<k>> \o SelectSeq(keys, LAMBDA j : j # k)

\* lruCache.Get without MoveToFront
lruGetNoMove(c, k) ==
    IF k \in items
    THEN /\ val' = [val EXCEPT ![c] = <<ll[ElementOf(ll, k)].value>>]
         /\ recent' = Touch(recent, k)
         /\ pc' = [pc EXCEPT ![c] = "idle"]
         /\ UNCHANGED <<req, res, inner, cap, ll, items, args, callInner, started, prev>>
    ELSE /\ pc' = [pc EXCEPT ![c] = "miss"]
         /\ UNCHANGED <<req, res, inner, cap, ll, items, args, val, callInner,
                        started, recent, prev>>

\* lruCache.Get(k) by caller c
lruGet(c, k) ==
    IF k \in items
    THEN /\ ll' = MoveToFront(ll, ElementOf(ll, k))
         /\ val' = [val EXCEPT ![c] = <<ll[ElementOf(ll, k)].value>>]
         /\ recent' = Touch(recent, k)
         /\ pc' = [pc EXCEPT ![c] = "idle"]
         /\ UNCHANGED <<req, res, inner, cap, items, args, callInner, started, prev>>
    ELSE /\ pc' = [pc EXCEPT ![c] = "miss"]
         /\ UNCHANGED <<req, res, inner, cap, ll, items, args, val, callInner,
                        started, recent, prev>>

Get(c) ==
    /\ pc[c] = "get"
    /\ lruGet(c, cacheKeys[args[c][1]])

\* lruCache.Add without the eviction
lruInsertNoEvict(pushed, k) ==
    /\ ll' = pushed
    /\ items' = items \cup {k}

\* the list and the index after PushFront and the eviction
lruInsert(pushed, k) ==
    IF Len(pushed) > cap
    THEN /\ ll' = RemoveBack(pushed)
         /\ items' = (items \cup {k}) \ {Back(pushed).key}
    ELSE /\ ll' = pushed
         /\ items' = items \cup {k}

\* lruCache.Add(k, value) by caller c
lruAdd(c, k, value) ==
    /\ IF k \in items
       THEN /\ ll' = MoveToFront([ll EXCEPT ![ElementOf(ll, k)] = cacheEntry(k, value)],
                                 ElementOf(ll, k))
            /\ items' = items
       ELSE lruInsert(PushFront(ll, cacheEntry(k, value)), k)
    /\ recent' = Touch(recent, k)
    /\ pc' = [pc EXCEPT ![c] = "idle"]
    /\ UNCHANGED <<req, res, inner, cap, args, val, callInner, started, prev>>

\* a miss whose result is never stored
AddSkipped(c) ==
    /\ pc[c] = "add"
    /\ pc' = [pc EXCEPT ![c] = "idle"]
    /\ UNCHANGED <<req, res, inner, cap, ll, items, args, val, callInner, started,
                   recent, prev>>

Add(c) ==
    /\ pc[c] = "add"
    /\ lruAdd(c, cacheKeys[args[c][1]], val[c][1])

Next ==
    \/ \E c \in Callers, a \in ConcurrentArgs : CachedCall(c, a)
    \/ \E c \in Callers : InnerCall(c)
    \/ \E c \in Callers : Get(c)
    \/ \E c \in Callers : Add(c)

Spec == Init /\ [][Next]_vars

(***************************************************************************)
(* Sequential calls on WithCache(inner, cap) for any of the estimators:    *)
(* one caller, and each call is recorded with the one before it            *)
(***************************************************************************)

SeqInit ==
    /\ inner \in Estimators
    /\ CacheInit

RecordedCall(c, a) ==
    /\ EnterCall(c, a)
    /\ prev' = [prev EXCEPT ![c] = IF args[c] = <<>> THEN <<>>
                                    ELSE <<[args |-> args[c][1], inner |-> callInner[c]]>>]

SeqNext ==
    \/ \E a \in CacheArgs : RecordedCall(1, a)
    \/ InnerCall(1)
    \/ Get(1)
    \/ Add(1)

SeqSpec == SeqInit /\ [][SeqNext]_vars

(***************************************************************************)
(* Sequential calls that differ in the parts of the key                    *)
(***************************************************************************)

KeyedCall(c, a) ==
    /\ started < MaxKeyCalls
    /\ RecordedCall(c, a)

KeyNext ==
    \/ \E a \in KeyArgs : KeyedCall(1, a)
    \/ InnerCall(1)
    \/ Get(1)
    \/ Add(1)

KeySpec == Init /\ [][KeyNext]_vars

(***************************************************************************)
(* Calls on WithCache(inner, size) with size <= 0                          *)
(***************************************************************************)

DisabledSizes == {-1, 0}

PassInit ==
    /\ inner \in Estimators
    /\ cap \in DisabledSizes
    /\ req = <<>>
    /\ res = <<>>
    /\ ll = <<>>
    /\ items = {}
    /\ pc = [c \in Callers |-> "idle"]
    /\ args = [c \in Callers |-> <<>>]
    /\ val = [c \in Callers |-> <<>>]
    /\ callInner = [c \in Callers |-> 0]
    /\ started = 0
    /\ recent = <<>>
    /\ prev = [c \in Callers |-> <<>>]

PassNext ==
    \/ \E a \in CacheArgs : RecordedCall(1, a)
    \/ InnerCall(1)

PassSpec == PassInit /\ [][PassNext]_vars

(***************************************************************************)
(* Properties of the cache                                                 *)
(***************************************************************************)

\* C3: for sequential calls on a cachedEstimator with capacity > 0, the second
\* of two calls with identical (text, options) and len(text) >= 512 does not
\* invoke the inner estimator, so that the two invoke it once in total when
\* they are the first two calls; two such calls with len(text) < 512 invoke
\* it once each.
C3_SecondCallServedFromCache ==
    \A c \in Callers :
        (/\ pc[c] = "idle"
         /\ val[c] # <<>>
         /\ prev[c] # <<>>
         /\ prev[c][1].args = args[c][1])
        => IF Len(args[c][1].text) >= 512
           THEN /\ callInner[c] = 0
                /\ prev[c][1].inner <= 1
                /\ started = 2 => prev[c][1].inner + callInner[c] = 1
           ELSE /\ prev[c][1].inner = 1
                /\ callInner[c] = 1

\* the first two calls are the same call with 512 bytes: one inner call
C3_Witness ==
    /\ started = 2
    /\ pc[1] = "idle"
    /\ val[1] # <<>>
    /\ prev[1] # <<>>
    /\ prev[1][1].args = args[1][1]
    /\ Len(args[1][1].text) = 512
    /\ prev[1][1].inner = 1
    /\ callInner[1] = 0

\* C4: the cache is transparent: every call on a cachedEstimator that wraps a
\* deterministic inner estimator, hit or miss and whichever of the four
\* methods, returns the Result the inner estimator returns for the method
\* called with the call's own arguments.
C4_CacheTransparent ==
    \A c \in Callers :
        (pc[c] = "idle" /\ val[c] # <<>>)
        => val[c][1] = estimate(inner, args[c][1].kind, args[c][1])

\* C5: strict LRU: a Get hit makes its key the most recently used one and
\* keeps every entry; an Add of a new key into a full cache evicts one
\* entry, the one whose last Get hit or Add is the oldest, and every other
\* entry stays in the cache with its value; the list is always in the order
\* of the last accesses.
C5_StrictLRU ==
    [][\A c \in Callers :
          LET k == cacheKeys[args[c][1]]
              keys(l) == [i \in 1..Len(l) |-> l[i].key]
          IN  /\ keys(ll') = SubSeq(recent', 1, Len(ll'))
              /\ (pc[c] = "get" /\ pc'[c] = "idle")
                   => /\ ll'[1].key = k
                      /\ {ll'[i] : i \in 1..Len(ll')} = {ll[i] : i \in 1..Len(ll)}
                      /\ items' = items
              /\ (pc[c] = "add" /\ pc'[c] = "idle" /\ k \notin items /\ Len(ll) = cap)
                   => /\ ll'[1].key = k
                      /\ items' = (items \ {recent[cap]}) \cup {k}
                      /\ recent[cap] \in items
                      /\ \A i \in 1..Len(ll) :
                            ll[i].key # recent[cap]
                              => \E j \in 1..Len(ll') : ll'[j] = ll[i]
      ]_vars

\* capacity 2: the text key was hit after the input key was added, so the Add
\* of the bytes key evicted the input key and kept the text key
C5_Witness ==
    /\ cap = 2
    /\ Len(recent) = 3
    /\ recent[1] = cacheKeys[Args("bytes", LongB, ZeroImages, 0, PlainOpts)]
    /\ recent[2] = cacheKeys[Args("text", LongA, ZeroImages, 0, PlainOpts)]
    /\ recent[3] = cacheKeys[Args("input", LongA, ZeroImages, 0, PlainOpts)]
    /\ items = {recent[1], recent[2]}
    /\ ll[2].key = recent[2]
    /\ \E c \in Callers : /\ pc[c] = "idle"
                          /\ val[c] # <<>>
                          /\ callInner[c] = 0
                          /\ cacheKeys[args[c][1]] = recent[2]

\* C6: under any interleaving of concurrent calls on one cachedEstimator,
\* the key set of the index equals the set of keys in the list, no key occurs
\* twice in the list, and the number of entries never exceeds the capacity.
C6_CacheConsistent ==
    /\ items = {ll[i].key : i \in 1..Len(ll)}
    /\ \A i, j \in 1..Len(ll) : ll[i].key = ll[j].key => i = j
    /\ Len(ll) <= cap

\* two callers missed the same key and both added it to a full cache
C6_Witness ==
    /\ Len(ll) = cap
    /\ \A c \in Callers : pc[c] = "idle" /\ val[c] # <<>> /\ callInner[c] = 1
    /\ \A c, d \in Callers : args[c] = args[d]
    /\ \A c \in Callers : cacheKeys[args[c][1]] \in items
    /\ Len(recent) > cap

\* C11: the key separates calls: two consecutive calls on one text of 512
\* bytes that differ in the kind of input (bytes, text, input), the resolved
\* strategy, the resolved profile, the GlobalMultiplier, Explain, messageCount
\* or the image counts have different keys, so never the same entry; when
\* they are the first two calls each invokes the inner estimator once, and a
\* cache with room for two then holds both entries.
C11_KeySeparatesCalls ==
    (/\ pc[1] = "idle"
     /\ val[1] # <<>>
     /\ prev[1] # <<>>
     /\ \E f \in 1..7 : keyFields[prev[1][1].args][f] # keyFields[args[1][1]][f])
    => /\ cacheKeys[prev[1][1].args] # cacheKeys[args[1][1]]
       /\ cacheKeys[args[1][1]] \in items
       /\ started = 2
            => /\ prev[1][1].inner = 1
               /\ callInner[1] = 1
               /\ cap >= 2 => /\ Len(ll) = 2
                              /\ cacheKeys[prev[1][1].args] \in items

\* a call with Profile OpenAI, then the same call with Profile Claude: two
\* inner calls and two entries
C11_Witness ==
    /\ started = 2
    /\ cap = 2
    /\ pc[1] = "idle"
    /\ prev[1] # <<>>
    /\ prev[1][1].args = Args("text", LongA, ZeroImages, 0, KeyOpts)
    /\ args[1][1] = Args("text", LongA, ZeroImages, 0,
                         [KeyOpts EXCEPT !.Profile = ProfileClaude])
    /\ prev[1][1].inner = 1
    /\ callInner[1] = 1
    /\ Len(ll) = 2

\* C12: WithCache(inner, size) with size <= 0 disables caching: every call on
\* the estimator it returns, whatever the length of the payload, invokes the
\* inner estimator exactly once and returns its result, the cache is never
\* consulted and no entry is ever stored.
C12_NoCacheWithoutCapacity ==
    cap <= 0
    => /\ ll = <<>>
       /\ items = {}
       /\ \A c \in Callers :
             /\ pc[c] \in {"idle", "bypass"}
             /\ (pc[c] = "idle" /\ args[c] # <<>>)
                  => /\ callInner[c] = 1
                     /\ val[c] = <<estimate(inner, args[c][1].kind, args[c][1])>>

\* a call with 512 bytes on WithCache(inner, 0) went to the inner estimator
C12_Witness ==
    /\ cap = 0
    /\ pc[1] = "idle"
    /\ args[1] # <<>>
    /\ Len(args[1][1].text) = defaultCacheMinTextBytes
    /\ callInner[1] = 1
    /\ prev[1] # <<>>
    /\ prev[1][1].args = args[1][1]
    /\ items = {}

(***************************************************************************)
(* More properties of the direct calls                                     *)
(***************************************************************************)

\* C13: a GlobalMultiplier <= 0 (the zero value of Options included) leaves
\* the token count as a multiplier of 1.0 leaves it, in every public call:
\* the Result is the one of the same call with the multiplier 1.0, so a
\* positive count never becomes zero or negative.
C13_NonPositiveMultiplierIsOne ==
    (res # <<>> /\ req[1].opts.GlobalMultiplier.num <= 0)
    => LET one == defaultEstimator(req[1].kind,
                      [req[1] EXCEPT !.opts.GlobalMultiplier = Mul(1, 1)])
       IN  /\ res[1] = one
           /\ one.Tokens > 0 => res[1].Tokens > 0

\* EstimateInput of "hello" with one low-detail image, two messages and the
\* multiplier -1: 2 + 85 + 50 + 8
C13_Witness ==
    /\ res # <<>>
    /\ req[1].kind = "input"
    /\ req[1].text = B("hello")
    /\ req[1].opts.Strategy = StrategyAuto
    /\ req[1].opts.GlobalMultiplier = Mul(-1, 1)
    /\ req[1].images = [LowDetail |-> 1, HighDetail |-> 0, Unknown |-> 0]
    /\ req[1].messageCount = 2
    /\ res[1].Tokens = 145

\* C14: ZR returns 0 for the empty string and never a negative count: for
\* every text, with dot the dot product of the features and the
\* coefficients of the text's category, the count is 0 when dot < 0 and the
\* ceiling of dot otherwise.
C14_ZRClampsNegativePrediction ==
    (/\ res # <<>>
     /\ req[1].kind \in {"bytes", "text", "output"}
     /\ req[1].opts.Strategy = StrategyZR
     /\ req[1].opts.GlobalMultiplier = Mul(1, 1))
    => LET r == estimateZRTokenXWithStats(req[1].text, zrConfigDefault)
           coeffs == zrCoefficientsFor(classifyZR(r.stats, zrConfigDefault))
           f == zrPredictPerBase(coeffs, r.stats)
           dot == r.base * f[1]
           tokens == res[1].Tokens
       IN  /\ tokens >= 0
           /\ req[1].text = <<>> => tokens = 0
           /\ dot < 0 => tokens = 0
           /\ dot >= 0 => /\ tokens * f[2] >= dot
                          /\ (tokens - 1) * f[2] < dot

\* six segments of one rune, half CJK and half punctuation: the dot product
\* is 6 * (0.9315 + 0.3001 - 0.59845 - 0.114 + 0.439175 - 1.15765) < -1
C14_Witness ==
    /\ res # <<>>
    /\ req[1].kind = "text"
    /\ req[1].opts.Strategy = StrategyZR
    /\ req[1].text = CJKPunctText
    /\ LET r == estimateZRTokenXWithStats(req[1].text, zrConfigDefault)
       IN  /\ r.base = 6
           /\ r.base * zrPredictPerBase(zrGeneralCoefficients, r.stats)[1]
                < - zrPredictPerBase(zrGeneralCoefficients, r.stats)[2]
    /\ res[1].Tokens = 0

\* C15: for Weighted with Explain = true, a text that is one run of ASCII
\* digits (e.g. "123") yields a Breakdown with a "number" entry whose
\* BaseUnits is 1 and whose Weight is the number weight of the resolved
\* profile, and a token count that is not 0.
C15_NumberBreakdownEntry ==
    (/\ res # <<>>
     /\ req[1].opts.Strategy = StrategyWeighted
     /\ req[1].opts.Explain
     /\ req[1].text # <<>>
     /\ \A i \in 1..Len(req[1].text) : req[1].text[i] \in 48..57)
    => /\ res[1].Tokens # 0
       /\ \E i \in 1..Len(res[1].Breakdown) :
             /\ res[1].Breakdown[i].Category = "number"
             /\ res[1].Breakdown[i].BaseUnits = 1
             /\ res[1].Breakdown[i].Weight = weightsForProfile(res[1].Profile).number
             /\ res[1].Breakdown[i].Tokens # F64Zero

(***************************************************************************)
(* The windows of sampleFastText on valid UTF-8 texts of more than         *)
(* fastSampleTotal bytes                                                   *)
(***************************************************************************)

MaxPad == 3

\* a, U+00E4, U+4F60, U+20AC, U+1F600
SampleUnits ==
    {<<97>>, <<195, 164>>, <<228, 189, 160>>, <<226, 130, 172>>, <<240, 159, 152, 128>>}

RepeatUnit(u, n) == [i \in 1..(n * Len(u)) |-> u[((i - 1) % Len(u)) + 1]]

\* p bytes 'a', then one code point repeated past fastSampleTotal bytes, then
\* q bytes 'a': the code points lie across the offsets 256, len/2 - 128,
\* len/2 + 128, len - 256 and len in every phase
SampleTexts ==
    {Repeat(97, p) \o RepeatUnit(u, CeilDiv(fastSampleTotal + 1, Len(u))) \o Repeat(97, q) :
        u \in SampleUnits, p \in 0..MaxPad, q \in 0..MaxPad}

SampleArgs ==
    {Args("text", t, ZeroImages, 0,
          Opts(StrategyFast, ProfileOpenAI, <<>>, <<>>, Mul(1, 1), FALSE)) :
        t \in SampleTexts}

\* the three windows [start, end) that sampleFastText hands to safeSlice,
\* after safeSlice has clamped and adjusted them
fastWindows(text) ==
    <<safeSliceBounds(text, 0, fastHeadSize),
      safeSliceBounds(text, (Len(text) \div 2) - (fastMidSize \div 2),
                      (Len(text) \div 2) - (fastMidSize \div 2) + fastMidSize),
      safeSliceBounds(text, Len(text) - fastTailSize, Len(text))>>

SampleInit ==
    /\ req \in {<<a>> : a \in SampleArgs}
    /\ res = <<>>
    /\ inner = "default"
    /\ cap = 0
    /\ ll = <<>>
    /\ items = {}
    /\ pc = <<>>
    /\ args = <<>>
    /\ val = <<>>
    /\ callInner = <<>>
    /\ started = 0
    /\ recent = <<>>
    /\ prev = <<>>

\* sampleFastText(text) of a text longer than fastSampleTotal
CallSampleFastText ==
    /\ req # <<>> /\ res = <<>>
    /\ Len(req[1].text) > fastSampleTotal
    /\ res' = <<[windows |-> fastWindows(req[1].text),
                 sample |-> sampleFastText(req[1].text)]>>
    /\ UNCHANGED <<req, cacheVars>>

SampleNext == CallSampleFastText

SampleSpec == SampleInit /\ [][SampleNext]_vars

\* utf8.ValidString
ValidString(s) == \A i \in RuneStarts(s) : RuneAt(s, i) # RuneError

\* the Go index k is the start of a code point of s, or its end
IsRuneBoundary(s, k) == k = Len(s) \/ (k + 1) \in RuneStarts(s)

\* C16: for a valid UTF-8 text of more than 1000 bytes, each of the three
\* windows of the Fast sample (head, middle, tail) starts and ends on a
\* code-point boundary of the text, and the sample holds no partial
\* multi-byte character.
C16_WindowsOnRuneBoundaries ==
    (/\ res # <<>>
     /\ Len(req[1].text) > fastSampleTotal
     /\ ValidString(req[1].text))
    => /\ \A w \in 1..3 :
             /\ IsRuneBoundary(req[1].text, res[1].windows[w][1])
             /\ IsRuneBoundary(req[1].text, res[1].windows[w][2])
       /\ ValidString(res[1].sample)

(***************************************************************************)
(* The Weighted scan and the bytes that are not valid UTF-8                *)
(***************************************************************************)

\* the positions of s where DecodeRuneInString returns (RuneError, 1)
DecodeFailures(s) ==
    {i \in RuneStarts(s) : RuneAt(s, i) = RuneError /\ SizeAt(s, i) = 1}

\* BaseUnits of the entry of a category in a Breakdown, 0 without an entry
UnitsOf(breakdown, category) ==
    IF \E k \in 1..Len(breakdown) : breakdown[k].Category = category
    THEN breakdown[CHOOSE k \in 1..Len(breakdown) :
                       breakdown[k].Category = category].BaseUnits
    ELSE 0

\* C17: in the Weighted scan every byte that fails UTF-8 decoding, wherever
\* it stands (first in the text, after whitespace, after punctuation or in
\* a word run), adds exactly one unit to "symbol": in a text whose
\* punctuation adds no symbol unit of its own, the "symbol" units of the
\* Breakdown are the number of such bytes.
C17_DecodeFailureIsOneSymbol ==
    (/\ res # <<>>
     /\ req[1].kind = "text"
     /\ req[1].opts.Strategy = StrategyWeighted
     /\ req[1].opts.Explain
     /\ \A i \in 1..Len(req[1].text) :
           isPunctuation(req[1].text[i])
               => \/ isAtSign(req[1].text[i])
                  \/ isURLDelim(req[1].text[i])
                  \/ isMathSymbol(req[1].text[i]))
    => UnitsOf(res[1].Breakdown, "symbol") = Cardinality(DecodeFailures(req[1].text))

(***************************************************************************)
(* The segments that estimateZRTokenXWithStats and estimateTokenXWithStats *)
(* hand to the estimator of one segment                                    *)
(***************************************************************************)

RECURSIVE tokenXSegmentLoopPerRune(_, _, _, _)
\* a loop that closes the segment at every rune
tokenXSegmentLoopPerRune(text, idx, segmentStart, segmentType) ==
    IF idx >= Len(text)
    THEN (IF segmentStart < Len(text) THEN <<<<segmentStart, Len(text)>>>> ELSE <<>>)
    ELSE <<<<segmentStart, idx>>>>
           \o tokenXSegmentLoopPerRune(text, idx + DecodeRune(text, idx + 1)[2], idx,
                                       segmentType)

RECURSIVE tokenXSegmentLoop(_, _, _, _)
\* `for idx, r := range text` from the decode position idx on, after the first
\* rune: the windows [segmentStart, idx) that are handed on, in order, and
\* the last one [segmentStart, len(text))
tokenXSegmentLoop(text, idx, segmentStart, segmentType) ==
    IF idx >= Len(text)
    THEN (IF segmentStart < Len(text) THEN <<<<segmentStart, Len(text)>>>> ELSE <<>>)
    ELSE LET d == DecodeRune(text, idx + 1)
             currentType == tokenXSegmentTypeForRune(d[1])
         IN  IF currentType # segmentType
             THEN <<<<segmentStart, idx>>>>
                    \o tokenXSegmentLoop(text, idx + d[2], idx, currentType)
             ELSE tokenXSegmentLoop(text, idx + d[2], segmentStart, segmentType)

tokenXSegments(text) ==
    IF Len(text) = 0 THEN <<>>
    ELSE tokenXSegmentLoop(text, DecodeRune(text, 1)[2], 0,
                           tokenXSegmentTypeForRune(DecodeRune(text, 1)[1]))

\* "ab  cd.. e", and a text with invalid bytes, white space, punctuation,
\* U+4F60 and U+1F600
SegmentTexts ==
    TextsOfUnits(MaxTextUnits)
      \cup {CJKPunctText, B("ab  cd.. e"),
            <<97, 255, 128, 32, 10, 46, 64, 228, 189, 160, 240, 159, 152, 128>>}

SegmentInit ==
    /\ req \in {<<Args("text", t, ZeroImages, 0,
                       Opts(StrategyZR, ProfileOpenAI, <<>>, <<>>, Mul(1, 1), FALSE))>> :
                   t \in SegmentTexts}
    /\ res = <<>>
    /\ inner = "default"
    /\ cap = 0
    /\ ll = <<>>
    /\ items = {}
    /\ pc = <<>>
    /\ args = <<>>
    /\ val = <<>>
    /\ callInner = <<>>
    /\ started = 0
    /\ recent = <<>>
    /\ prev = <<>>

\* estimateZRTokenXWithStats(text, cfg); with the configuration of tokenx it
\* is estimateTokenXWithStats(text)
CallEstimateZRTokenXWithStats ==
    /\ req # <<>> /\ res = <<>>
    /\ \E cfg \in {zrConfigDefault,
                   [zrConfigDefault EXCEPT !.charsPerToken = defaultCharsPerToken,
                                           !.shortThreshold = tokenXShortTokenThreshold]} :
          res' = <<[segments |-> tokenXSegments(req[1].text),
                    base |-> estimateZRTokenXWithStats(req[1].text, cfg).base,
                    cfg |-> cfg]>>
    /\ UNCHANGED <<req, cacheVars>>

SegmentNext == CallEstimateZRTokenXWithStats

SegmentSpec == SegmentInit /\ [][SegmentNext]_vars

\* the segment types of the runes of the window w of text
SegmentTypes(text, w) ==
    {tokenXSegmentTypeForRune(RuneAt(SliceWindow(text, w), i)) :
        i \in RuneStarts(SliceWindow(text, w))}

RECURSIVE SegmentsBase(_, _, _, _)
SegmentsBase(text, segs, k, cfg) ==
    IF k > Len(segs) THEN 0
    ELSE estimateZRTokenXSegment(RuneMap(SliceWindow(text, segs[k])),
                                 segs[k][2] - segs[k][1], cfg).base
           + SegmentsBase(text, segs, k + 1, cfg)

\* C18: for every text the segments handed to the estimator of one segment
\* are not empty, hold code points of one coarse category each (white
\* space, punctuation, other), differ in category from their neighbour, and
\* follow one another from the first byte of the text to its last, each
\* starting at a code point; the base tokens are the sum over them.
C18_SegmentsPartitionText ==
    res # <<>>
    => LET text == req[1].text
           segs == res[1].segments
       IN  /\ (Len(text) = 0) = (segs = <<>>)
           /\ segs # <<>> => segs[1][1] = 0 /\ segs[Len(segs)][2] = Len(text)
           /\ \A k \in 1..Len(segs) :
                 /\ segs[k][1] < segs[k][2]
                 /\ IsRuneBoundary(text, segs[k][1])
                 /\ Cardinality(SegmentTypes(text, segs[k])) = 1
                 /\ k < Len(segs) =>
                       /\ segs[k][2] = segs[k + 1][1]
                       /\ SegmentTypes(text, segs[k]) # SegmentTypes(text, segs[k + 1])
           /\ res[1].base = SegmentsBase(text, segs, 1, res[1].cfg)

C18_Witness ==
    /\ res # <<>>
    /\ req[1].text = B("ab  cd.. e")
    /\ res[1].segments = <<<<0, 2>>, <<2, 4>>, <<4, 6>>, <<6, 8>>, <<8, 9>>, <<9, 10>>>>

(***************************************************************************)
(* classifyZR on statistics around its thresholds                          *)
(***************************************************************************)

MaxSpaceRunes == 2

\* the statistics a text can have: upper-case and hex runes are not
\* punctuation, and SpaceRunes counts the runes outside TotalRunes
ClassifyStats ==
    {s \in [TotalRunes : {0, 49, 50, 100}, CJKRunes : {0}, PunctRunes : 0..3,
            DigitRunes : {0}, SpaceRunes : 0..MaxSpaceRunes,
            UpperRunes : {0, 15, 16, 30, 31}, HexRunes : {0, 45, 46, 90, 91}] :
        /\ s.UpperRunes + s.PunctRunes <= s.TotalRunes
        /\ s.HexRunes + s.PunctRunes <= s.TotalRunes}

ClassifyInit ==
    /\ req \in {<<[kind |-> "classifyZR", stats |-> s]>> : s \in ClassifyStats}
    /\ res = <<>>
    /\ inner = "default"
    /\ cap = 0
    /\ ll = <<>>
    /\ items = {}
    /\ pc = <<>>
    /\ args = <<>>
    /\ val = <<>>
    /\ callInner = <<>>
    /\ started = 0
    /\ recent = <<>>
    /\ prev = <<>>

\* category := classifyZR(stats, zrConfigDefault), as estimateZR calls it
CallClassifyZR ==
    /\ req # <<>> /\ res = <<>>
    /\ res' = <<classifyZR(req[1].stats, zrConfigDefault)>>
    /\ UNCHANGED <<req, cacheVars>>

ClassifyNext == CallClassifyZR

ClassifySpec == ClassifyInit /\ [][ClassifyNext]_vars

\* C19: classifyZR returns one category for every statistics, by ordered
\* tests on the counts relative to the non-whitespace total: total < 50 is
\* General; else upper/total > 0.30 is Capital; else, if space/total < 0.01,
\* hex/total > 0.90 is Hex, else punct/total < 0.03 is Alnum, else Dense;
\* else General.  Capital wins over Hex, Alnum and Dense, and Hex over Alnum.
C19_ClassifyOrderedTests ==
    res # <<>>
    => LET s == req[1].stats
           long == s.TotalRunes >= 50
           capital == s.UpperRunes * 100 > 30 * s.TotalRunes
           dense == s.SpaceRunes * 100 < s.TotalRunes
           hex == s.HexRunes * 100 > 90 * s.TotalRunes
           alnum == s.PunctRunes * 100 < 3 * s.TotalRunes
       IN  /\ res[1] \in {zrCategoryGeneral, zrCategoryCapital, zrCategoryDense,
                          zrCategoryHex, zrCategoryAlnum}
           /\ ~long => res[1] = zrCategoryGeneral
           /\ (long /\ capital) => res[1] = zrCategoryCapital
           /\ (long /\ ~capital /\ dense /\ hex) => res[1] = zrCategoryHex
           /\ (long /\ ~capital /\ dense /\ ~hex /\ alnum) => res[1] = zrCategoryAlnum
           /\ (long /\ ~capital /\ dense /\ ~hex /\ ~alnum) => res[1] = zrCategoryDense
           /\ (long /\ ~capital /\ ~dense) => res[1] = zrCategoryGeneral

\* 100 runes without white space, 31 upper case, 91 hex digits, no
\* punctuation: the tests of Capital, Hex and Alnum all succeed
C19_Witness ==
    /\ res = <<zrCategoryCapital>>
    /\ req[1].stats.TotalRunes = 100
    /\ req[1].stats.UpperRunes = 31
    /\ req[1].stats.HexRunes = 91
    /\ req[1].stats.SpaceRunes = 0
    /\ req[1].stats.PunctRunes = 0

(***************************************************************************)
(* The Weighted scan on runs of punctuation                                *)
(***************************************************************************)

MaxPunctRunes == 3

\* ! ; @ / = + .
PunctUnits == {33, 59, 64, 47, 61, 43, 46}

\* every run of 1..MaxPunctRunes of them, and "!!!@/=+!"
PunctTexts ==
    UNION {[1..n -> PunctUnits] : n \in 1..MaxPunctRunes}
      \cup {<<33, 33, 33, 64, 47, 61, 43, 33>>}

PunctInit ==
    /\ req \in {<<Args("text", t, ZeroImages, 0,
                       Opts(StrategyWeighted, ProfileOpenAI, <<>>, <<>>, Mul(1, 1), TRUE))>> :
                   t \in PunctTexts}
    /\ res = <<>>
    /\ inner = "default"
    /\ cap = 0
    /\ ll = <<>>
    /\ items = {}
    /\ pc = <<>>
    /\ args = <<>>
    /\ val = <<>>
    /\ callInner = <<>>
    /\ started = 0
    /\ recent = <<>>
    /\ prev = <<>>

PunctNext == CallEstimateText

PunctSpec == PunctInit /\ [][PunctNext]_vars

\* the code points of a run that go to the symbol run
OtherPunct(r) == ~(isAtSign(r) \/ isURLDelim(r) \/ isMathSymbol(r))

\* how many code points of the symbol run end at position i of the text
SymbolsUpTo(text, i) == i - MaxOf({0} \cup {j \in 1..i : ~OtherPunct(text[j])})

MaxSegmentRunes == 4

\* 1 . , a
SegmentUnits == {49, 46, 44, 97}

NumericSegments == UNION {[1..n -> SegmentUnits] : n \in 0..MaxSegmentRunes}

NumericInit ==
    /\ req \in {<<[kind |-> "isNumericSegment", text |-> s]>> : s \in NumericSegments}
    /\ res = <<>>
    /\ inner = "default"
    /\ cap = 0
    /\ ll = <<>>
    /\ items = {}
    /\ pc = <<>>
    /\ args = <<>>
    /\ val = <<>>
    /\ callInner = <<>>
    /\ started = 0
    /\ recent = <<>>
    /\ prev = <<>>

\* isNumericSegment(segment)
CallIsNumericSegment ==
    /\ req # <<>> /\ res = <<>>
    /\ res' = <<isNumericSegment(RuneMap(req[1].text), Len(req[1].text))>>
    /\ UNCHANGED <<req, cacheVars>>

NumericNext == CallIsNumericSegment

NumericSpec == NumericInit /\ [][NumericNext]_vars

MaxWordPad == 10

\* U+00E4 (German table), U+00E9 (French/Spanish), U+00FD (Polish/Czech),
\* U+00F3 (French/Spanish and Polish/Czech), U+4F60, U+597D, 1, U+0105
WordUnits ==
    {<<195, 164>>, <<195, 169>>, <<195, 189>>, <<195, 179>>, <<228, 189, 160>>,
     <<229, 165, 189>>, <<49>>, <<196, 133>>}

\* at most two of the units, then 0..MaxWordPad letters 'a'
WordTexts ==
    {u \o v \o Repeat(97, k) :
        u \in WordUnits \cup {<<>>}, v \in WordUnits \cup {<<>>}, k \in 0..MaxWordPad}
      \ {<<>>}

WordInit ==
    /\ req \in {<<Args("text", t, ZeroImages, 0,
                       Opts(StrategyWeighted, ProfileOpenAI, <<>>, <<>>, Mul(1, 1), TRUE))>> :
                   t \in WordTexts}
    /\ res = <<>>
    /\ inner = "default"
    /\ cap = 0
    /\ ll = <<>>
    /\ items = {}
    /\ pc = <<>>
    /\ args = <<>>
    /\ val = <<>>
    /\ callInner = <<>>
    /\ started = 0
    /\ recent = <<>>
    /\ prev = <<>>

WordNext == CallEstimateText

WordSpec == WordInit /\ [][WordNext]_vars

\* the code points of a valid text, in order of their positions
CodePoints(s) == {RuneAt(s, i) : i \in RuneStarts(s)}

\* twice the chars per token of an all-Latin segment: 6 (German), else 6
\* (French/Spanish), else 7 (Polish/Czech), else 12
TwiceCharsPerToken(cps) ==
    IF cps \cap defaultLanguageConfigs[1].set # {} THEN 6
    ELSE IF cps \cap defaultLanguageConfigs[2].set # {} THEN 6
    ELSE IF cps \cap defaultLanguageConfigs[3].set # {} THEN 7
    ELSE 12

\* C22: the base units of a word segment (no white space, punctuation or
\* emoji) follow the first rule that matches: all CJK gives one unit per
\* code point (category cjk); a numeric pattern gives 1 (number); at most 3
\* code points give 1 (word); all Latin alphanumerics give ceil(n / c), c = 6
\* or the 3, 3 or 3.5 of the first diacritic table that matches (German,
\* French/Spanish, Polish/Czech); otherwise n.  Two CJK code points give 2.
C22_WordSegmentUnits ==
    (/\ res # <<>>
     /\ req[1].kind = "text"
     /\ req[1].opts.Strategy = StrategyWeighted
     /\ req[1].opts.Explain
     /\ req[1].text # <<>>
     /\ ValidString(req[1].text)
     /\ \A r \in CodePoints(req[1].text) : ~(IsSpace(r) \/ isPunctuation(r) \/ isEmoji(r)))
    => LET cps == CodePoints(req[1].text)
           n == RuneCountInString(req[1].text)
           b == res[1].Breakdown
       IN  /\ Len(b) = 1
           /\ IF \A r \in cps : isCJKRune(r)
              THEN b[1].Category = "cjk" /\ b[1].BaseUnits = n
              ELSE IF cps \subseteq 48..57
              THEN b[1].Category = "number" /\ b[1].BaseUnits = 1
              ELSE IF n <= 3
              THEN b[1].Category = "word" /\ b[1].BaseUnits = 1
              ELSE IF \A r \in cps : isLatinAlphaNum(r)
              THEN /\ b[1].Category = "word"
                   /\ b[1].BaseUnits = CeilDiv(2 * n, TwiceCharsPerToken(cps))
              ELSE b[1].Category = "word" /\ b[1].BaseUnits = n

\* U+00FD and nine letters 'a': only the Polish/Czech table matches, and
\* ceil(10 / 3.5) = 3, where 6 would give 2 and 3 would give 4
C22_Witness ==
    /\ res # <<>>
    /\ req[1].text = <<195, 189>> \o Repeat(97, 9)
    /\ Len(res[1].Breakdown) = 1
    /\ res[1].Breakdown[1].Category = "word"
    /\ res[1].Breakdown[1].BaseUnits = 3

(***************************************************************************)
(* The Breakdown of a Result                                               *)
(***************************************************************************)

\* the place of a category in the order of the Breakdown, 0 for any other
CanonicalPlace(category) ==
    LET order == <<"word", "number", "cjk", "symbol", "math_symbol", "url_delim",
                   "at_sign", "emoji", "newline", "space">>
    IN  IF \E k \in 1..Len(order) : order[k] = category
        THEN CHOOSE k \in 1..Len(order) : order[k] = category
        ELSE 0

MaxFastRunes == 5

\* a, space, U+4F60, '.'
FastUnits == {<<97>>, <<32>>, <<228, 189, 160>>, <<46>>}

RECURSIVE FastTextsOf(_)
FastTextsOf(n) ==
    IF n = 0 THEN {<<>>}
    ELSE LET shorter == FastTextsOf(n - 1)
         IN  shorter \cup {t \o u : t \in shorter, u \in FastUnits}

\* "hello world" and U+4F60 U+597D U+4E16 U+754C of TestEstimateBytesFast
FastTexts ==
    FastTextsOf(MaxFastRunes)
      \cup {B("hello world"),
            <<228, 189, 160, 229, 165, 189, 228, 184, 150, 231, 149, 140>>}

FastInit ==
    /\ req \in {<<Args("text", t, ZeroImages, 0,
                       Opts(StrategyFast, ProfileAuto, <<>>, <<>>, Mul(1, 1), FALSE))>> :
                   t \in FastTexts}
    /\ res = <<>>
    /\ inner = "default"
    /\ cap = 0
    /\ ll = <<>>
    /\ items = {}
    /\ pc = <<>>
    /\ args = <<>>
    /\ val = <<>>
    /\ callInner = <<>>
    /\ started = 0
    /\ recent = <<>>
    /\ prev = <<>>

FastNext == CallEstimateText

FastSpec == FastInit /\ [][FastNext]_vars

\* twice the number of code points times the divisor of the real numbers:
\* 4 - 1.5*c - 1.0*p clamped to [2, 4], c and p the fractions of the code
\* points that are CJK ideographs and punctuation marks
TwiceRunesTimesDivisor(s) ==
    LET total == Cardinality(RuneStarts(s))
        cjk == Cardinality({i \in RuneStarts(s) : InRange(RuneAt(s, i), 19968, 40959)})
        punct == Cardinality({i \in RuneStarts(s) : isFastPunct(RuneAt(s, i))})
        raw == 8 * total - 3 * cjk - 2 * punct
    IN  IF raw < 4 * total THEN 4 * total
        ELSE IF raw > 8 * total THEN 8 * total
        ELSE raw

\* C24: for a text of at most 1000 bytes Fast returns ceil(len_bytes / d),
\* d = 4 - 1.5*c - 1.0*p clamped to [2, 4], c the fraction of the code
\* points in U+4E00..U+9FFF and p the fraction in the punctuation set.
C24_FastCeilOfLengthByDivisor ==
    (/\ res # <<>>
     /\ req[1].kind = "text"
     /\ req[1].opts.Strategy = StrategyFast
     /\ req[1].opts.GlobalMultiplier = Mul(1, 1)
     /\ req[1].text # <<>>
     /\ Len(req[1].text) <= 1000)
    => LET s == req[1].text
           num == Len(s) * 2 * Cardinality(RuneStarts(s))
           den == TwiceRunesTimesDivisor(s)
       IN  /\ res[1].Tokens * den >= num
           /\ (res[1].Tokens - 1) * den < num

(***************************************************************************)
(* ZR on texts of the Capital category                                     *)
(***************************************************************************)

MaxCapitalPad == 3

\* U+4F60, '.', '1', 'b', space
CapitalUnits == {<<228, 189, 160>>, <<46>>, <<49>>, <<98>>, <<32>>}

\* u letters 'A' and 50 - u letters 'b' for u around the threshold, or
\* 50..50+MaxCapitalPad letters 'A'; then at most two of the units
CapitalTexts ==
    {h \o u \o v :
        h \in {Repeat(65, 15) \o Repeat(98, 35), Repeat(65, 16) \o Repeat(98, 34)}
                \cup {Repeat(65, n) : n \in 50..(50 + MaxCapitalPad)},
        u \in CapitalUnits \cup {<<>>}, v \in CapitalUnits \cup {<<>>}}

CapitalInit ==
    /\ req \in {<<Args("text", t, ZeroImages, 0,
                       Opts(StrategyZR, ProfileAuto, <<>>, <<>>, Mul(1, 1), FALSE))>> :
                   t \in CapitalTexts}
    /\ res = <<>>
    /\ inner = "default"
    /\ cap = 0
    /\ ll = <<>>
    /\ items = {}
    /\ pc = <<>>
    /\ args = <<>>
    /\ val = <<>>
    /\ callInner = <<>>
    /\ started = 0
    /\ recent = <<>>
    /\ prev = <<>>

CapitalNext == CallEstimateText

CapitalSpec == CapitalInit /\ [][CapitalNext]_vars

\* the code points of s that are not white space
NonSpaceRunes(s) == {i \in RuneStarts(s) : ~IsSpace(RuneAt(s, i))}

\* at least 50 code points that are not white space, more than 0.30 of them
\* upper case
IsCapitalText(s) ==
    /\ Cardinality(NonSpaceRunes(s)) >= 50
    /\ 100 * Cardinality({i \in NonSpaceRunes(s) : IsUpper(RuneAt(s, i))})
         > 30 * Cardinality(NonSpaceRunes(s))

\* C25: for a text of the Capital category (at least 50 code points that
\* are not white space, more than 0.30 of them upper case) ZR returns
\* ceil(2.0163 * base), base the sum of the base units of the segments,
\* whatever the CJK, punctuation and digit ratios; for a run of n >= 50
\* letters 'A', base = ceil(n / 3).
C25_CapitalIsCoefficientTimesBase ==
    (/\ res # <<>>
     /\ req[1].kind = "text"
     /\ req[1].opts.Strategy = StrategyZR
     /\ req[1].opts.GlobalMultiplier = Mul(1, 1)
     /\ IsCapitalText(req[1].text))
    => LET s == req[1].text
           base == SegmentsBase(s, tokenXSegments(s), 1, zrConfigDefault)
       IN  /\ res[1].Tokens = CeilDiv(20163 * base, 10000)
           /\ (\A i \in 1..Len(s) : s[i] = 65) => base = CeilDiv(Len(s), 3)

\* 50 letters 'A', an ideograph and a full stop: CJK and punctuation ratios
\* above 0, base 51 + 1
C25_Witness ==
    /\ res # <<>>
    /\ req[1].text = Repeat(65, 50) \o <<228, 189, 160, 46>>
    /\ req[1].opts.Strategy = StrategyZR
    /\ IsCapitalText(req[1].text)
    /\ res[1].Tokens = 105

(***************************************************************************)
(* Two concurrent calls with the same key                                  *)
(***************************************************************************)

\* C26: when the first two calls on a cachedEstimator with an empty cache
\* are made by two callers with the same payload (512 bytes or more) and
\* options, the inner estimator is invoked exactly once across the two
\* calls, however their steps interleave.
C26_InnerInvokedOnce ==
    \A c, d \in Callers :
        (/\ c # d
         /\ started = 2
         /\ args[c] # <<>> /\ args[d] # <<>>
         /\ args[c] = args[d]
         /\ Len(args[c][1].text) >= defaultCacheMinTextBytes
         /\ pc[c] = "idle" /\ pc[d] = "idle")
        => callInner[c] + callInner[d] = 1

(***************************************************************************)
(* Fast on texts that are not valid UTF-8                                  *)
(***************************************************************************)

\* p letters 'a', a run of the continuation byte 0x80 that ends around
\* fastSampleTotal bytes, q letters 'a'
ContinuationTexts ==
    {Repeat(97, p) \o Repeat(128, n) \o Repeat(97, q) :
        p \in 0..MaxPad, q \in 0..MaxPad,
        n \in {1, fastSampleTotal - 1, fastSampleTotal, fastSampleTotal + 1,
               fastSampleTotal + 2}}

ContinuationInit ==
    /\ req \in {<<Args("text", t, ZeroImages, 0,
                       Opts(StrategyFast, ProfileAuto, <<>>, <<>>, Mul(1, 1), FALSE))>> :
                   t \in ContinuationTexts}
    /\ res = <<>>
    /\ inner = "default"
    /\ cap = 0
    /\ ll = <<>>
    /\ items = {}
    /\ pc = <<>>
    /\ args = <<>>
    /\ val = <<>>
    /\ callInner = <<>>
    /\ started = 0
    /\ recent = <<>>
    /\ prev = <<>>

ContinuationNext == CallEstimateText

ContinuationSpec == ContinuationInit /\ [][ContinuationNext]_vars

\* C27: for every text that is not empty, valid UTF-8 or not and of any
\* length, Fast returns at least ceil(len_bytes / 4), the count of
\* UltraFast on the same bytes; it returns 0 only for the empty text.
C27_FastAtLeastUltraFast ==
    (/\ res # <<>>
     /\ req[1].kind = "text"
     /\ req[1].opts.Strategy = StrategyFast
     /\ req[1].opts.GlobalMultiplier = Mul(1, 1)
     /\ req[1].text # <<>>)
    => /\ res[1].Tokens >= CeilDiv(Len(req[1].text), 4)
       /\ res[1].Tokens # 0

(***************************************************************************)
(* Calls with a payload below minTextSize among calls that are cached      *)
(***************************************************************************)

BypassNext ==
    \/ \E c \in Callers, a \in BypassArgs : CachedCall(c, a)
    \/ \E c \in Callers : InnerCall(c)
    \/ \E c \in Callers : Get(c)
    \/ \E c \in Callers : Add(c)

BypassSpec == Init /\ [][BypassNext]_vars

\* C28: no step of a call on a cachedEstimator whose payload is shorter
\* than 512 bytes reads or changes the cache: the entries, their values,
\* their order and the history of the accesses stay as they are, and the
\* call goes to the inner estimator without a Get or an Add.
C28_ShortPayloadLeavesCacheAlone ==
    [][\A c \in Callers :
          (/\ pc'[c] # pc[c]
           /\ args'[c] # <<>>
           /\ Len(args'[c][1].text) < defaultCacheMinTextBytes)
          => /\ pc'[c] \in {"bypass", "idle"}
             /\ ll' = ll
             /\ items' = items
             /\ recent' = recent]_vars

\* a call of EstimateInput with 511 bytes has returned from the inner
\* estimator while the cache holds an entry
C28_Witness ==
    \E c \in Callers :
        /\ pc[c] = "idle"
        /\ args[c] # <<>>
        /\ args[c][1].kind = "input"
        /\ Len(args[c][1].text) = defaultCacheMinTextBytes - 1
        /\ callInner[c] = 1
        /\ val[c] # <<>>
        /\ ll # <<>>

(***************************************************************************)
(* Weighted: the total and the Tokens of the entries                       *)
(***************************************************************************)

MaxSumRuns == 2

\* i times '+', j times U+1F600, k times '!'
SumTexts ==
    {Repeat(43, i) \o RepeatUnit(<<240, 159, 152, 128>>, j) \o Repeat(33, k) :
        i \in 0..MaxSumRuns, j \in 0..MaxSumRuns, k \in 0..6} \ {<<>>}

SumInit ==
    /\ req \in {<<Args("text", t, ZeroImages, 0,
                       Opts(StrategyWeighted, p, <<>>, <<>>, Mul(1, 1), TRUE))>> :
                   t \in SumTexts, p \in {ProfileOpenAI, ProfileClaude, ProfileGemini}}
    /\ res = <<>>
    /\ inner = "default"
    /\ cap = 0
    /\ ll = <<>>
    /\ items = {}
    /\ pc = <<>>
    /\ args = <<>>
    /\ val = <<>>
    /\ callInner = <<>>
    /\ started = 0
    /\ recent = <<>>
    /\ prev = <<>>

SumNext == CallEstimateText

SumSpec == SumInit /\ [][SumNext]_vars

\* the float64 sum of the Tokens of the entries k.. of a Breakdown
RECURSIVE BreakdownSum(_, _, _)
BreakdownSum(b, k, sum) ==
    IF k > Len(b) THEN sum ELSE BreakdownSum(b, k + 1, F64Add(sum, b[k].Tokens))

\* C29: for Weighted through EstimateText with Explain and a multiplier
\* that changes nothing, every entry of the Breakdown has Tokens =
\* BaseUnits * Weight, Weight the weight of its category in the resolved
\* profile, and Result.Tokens is the ceiling of the sum of the Tokens of
\* the entries.
C29_TokensAreWeightedSum ==
    (/\ res # <<>>
     /\ req[1].kind = "text"
     /\ req[1].opts.Strategy = StrategyWeighted
     /\ req[1].opts.Explain
     /\ req[1].opts.GlobalMultiplier = Mul(1, 1))
    => LET b == res[1].Breakdown
           w == weightsForProfile(res[1].Profile)
       IN  /\ \A k \in 1..Len(b) :
                 /\ b[k].Weight = weightForCategory(w, b[k].Category)
                 /\ b[k].Tokens = F64MulInt(b[k].BaseUnits, weightFloat64(b[k].Weight))
           /\ res[1].Tokens = F64Ceil(BreakdownSum(b, 1, F64Zero))

(***************************************************************************)
(* Weighted: the scan turn by turn.  res holds the index i of the loop,    *)
(* the index `from` at the start of the last turn, the number of turns     *)
(* and whether the loop was left.                                          *)
(***************************************************************************)

\* the units of the sweep and two sequences that are cut short
ScanUnits == TextUnits \cup {<<228, 189>>, <<240, 159, 152>>}

RECURSIVE ScanTextsOf(_)
ScanTextsOf(n) ==
    IF n = 0 THEN {<<>>}
    ELSE LET shorter == ScanTextsOf(n - 1)
         IN  shorter \cup {t \o u : t \in shorter, u \in ScanUnits}

ScanInit ==
    /\ req \in {<<[kind |-> "scan", text |-> t]>> : t \in ScanTextsOf(MaxTextUnits)}
    /\ res = <<[from |-> 0, i |-> 0, iterations |-> 0, done |-> FALSE]>>
    /\ inner = "default"
    /\ cap = 0
    /\ ll = <<>>
    /\ items = {}
    /\ pc = <<>>
    /\ args = <<>>
    /\ val = <<>>
    /\ callInner = <<>>
    /\ started = 0
    /\ recent = <<>>
    /\ prev = <<>>

\* one turn of `for i := 0; i < len(text); { ... }`
ScanTurn ==
    /\ ~res[1].done
    /\ res[1].i < Len(req[1].text)
    /\ res[1].iterations <= Len(req[1].text)
    /\ res' = <<[from |-> res[1].i,
                 i |-> weightedAdvance(req[1].text, res[1].i,
                                       DecodeRune(req[1].text, res[1].i + 1)),
                 iterations |-> res[1].iterations + 1,
                 done |-> FALSE]>>
    /\ UNCHANGED <<req, cacheVars>>

\* the test i < len(text) fails
ScanExit ==
    /\ ~res[1].done
    /\ res[1].i >= Len(req[1].text)
    /\ res' = <<[res[1] EXCEPT !.done = TRUE]>>
    /\ UNCHANGED <<req, cacheVars>>

ScanNext ==
    \/ ScanTurn
    \/ ScanExit

\* the loop runs on its own: a turn or the exit that can be taken is taken
ScanSpec == ScanInit /\ [][ScanNext]_vars /\ WF_vars(ScanNext)

ScanBounded ==
    /\ res[1].iterations > 0 => res[1].i >= res[1].from + 1
    /\ res[1].i <= Len(req[1].text)
    /\ res[1].iterations <= Len(req[1].text)
    /\ res[1].done => res[1].i = Len(req[1].text)

ScanDone == res[1].done

\* C30: the Weighted scan terminates on every byte string, valid UTF-8 or
\* not: every turn of the loop moves the index forward by at least one
\* byte, the index never exceeds len(text), there are at most len(text)
\* turns, and the loop is left with the index equal to len(text).
C30_ScanTerminates == []ScanBounded /\ <>ScanDone

\* 0xFF and U+4F60: one turn for the byte that does not decode, one for the
\* word run, and the loop is left at index 4
C30_Witness ==
    /\ req[1].text = <<255, 228, 189, 160>>
    /\ res[1].done
    /\ res[1].i = 4
    /\ res[1].from = 1
    /\ res[1].iterations = 2

====
